---- MODULE Spec2Model ----
\* Model of the image-to-song backend: the catalog auth token cache, the
\* /recommendations request handler with its query plan, candidate
\* aggregation, diversified selection and local fallback, the enhanced
\* mood analyzer, the ranking and the local fallback of
\* /analyze-and-recommend, and the quiz preference calculation.
EXTENDS Integers, Sequences, FiniteSets, TLC

VARIABLES
    \* token cache (module globals of the routers) and its callers
    now, credentials, spotify_access_token, token_expires_at,
    tpc, current_time, refreshed, ret, issued, spotify_status,
    \* one /recommendations request
    rpc, mood, user_profile, auth, catalog, search_queries, strategy,
    outcomes, all_tracks, response,
    \* one analyze_comprehensive_mood call
    mpc, caption, colors, mood_result, audio_features,
    \* one _rank_songs_by_characteristics call
    kpc, rank_mood, rank_tracks, ranked_by, ranked_tracks,
    \* one calculate_preferences request
    qpc, song_ratings, quiz_response,
    \* one _get_fallback_songs_for_analysis call
    apc, analysis_mood, music_profile, fallback_songs,
    \* HybridImageService: the coroutines calling load_model and the jobs
    \* of its executor
    hpc, is_loaded, load_lock, executor_jobs, model_loads,
    \* BLIP2Service: the coroutines calling load_model or generate_caption
    bpc, is_model_loaded, model_loading_lock, lock_waits,
    \* the while loop of one _diversified_track_selection call
    spc, sel_input, sel_groups, sel_final, sel_index,
    \* one _rgb_to_color_name call
    cpc, rgb_triple, color_bucket

tokenVars ==
    <<now, credentials, spotify_access_token, token_expires_at, tpc,
      current_time, refreshed, ret, issued, spotify_status>>

recVars ==
    <<rpc, mood, user_profile, auth, catalog, search_queries, strategy,
      outcomes, all_tracks, response>>

moodVars == <<mpc, caption, colors, mood_result, audio_features>>

rankVars == <<kpc, rank_mood, rank_tracks, ranked_by, ranked_tracks>>

quizVars == <<qpc, song_ratings, quiz_response>>

analysisFallbackVars == <<apc, analysis_mood, music_profile, fallback_songs>>

hybridVars == <<hpc, is_loaded, load_lock, executor_jobs, model_loads>>

blipVars == <<bpc, is_model_loaded, model_loading_lock, lock_waits>>

selectVars == <<spc, sel_input, sel_groups, sel_final, sel_index>>

colorVars == <<cpc, rgb_triple, color_bucket>>

loaderVars == <<hybridVars, blipVars>>

\* the components that are modelled on their own
standaloneVars == <<loaderVars, selectVars, colorVars>>

vars ==
    <<tokenVars, recVars, moodVars, rankVars, quizVars, analysisFallbackVars,
      standaloneVars>>

\* what the actions of one component leave alone
notToken == <<recVars, moodVars, rankVars, quizVars, analysisFallbackVars,
    standaloneVars>>

notRec == <<tokenVars, moodVars, rankVars, quizVars, analysisFallbackVars,
    standaloneVars>>

notMood == <<tokenVars, recVars, rankVars, quizVars, analysisFallbackVars,
    standaloneVars>>

notRank == <<tokenVars, recVars, moodVars, quizVars, analysisFallbackVars,
    standaloneVars>>

notQuiz == <<tokenVars, recVars, moodVars, rankVars, analysisFallbackVars,
    standaloneVars>>

notAnalysisFallback == <<tokenVars, recVars, moodVars, rankVars, quizVars,
    standaloneVars>>

notHybrid ==
    <<tokenVars, recVars, moodVars, rankVars, quizVars, analysisFallbackVars,
      blipVars, selectVars, colorVars>>

notBlip ==
    <<tokenVars, recVars, moodVars, rankVars, quizVars, analysisFallbackVars,
      hybridVars, selectVars, colorVars>>

notSelect ==
    <<tokenVars, recVars, moodVars, rankVars, quizVars, analysisFallbackVars,
      loaderVars, colorVars>>

notColor ==
    <<tokenVars, recVars, moodVars, rankVars, quizVars, analysisFallbackVars,
      loaderVars, selectVars>>

\* ---------------------------------------------------------------------
\* Python strings are modelled as tuples of one-character strings, so that
\* 'in', slicing, concatenation and lower() are computed, not assumed.
\* ---------------------------------------------------------------------

Min(a, b) == IF a <= b THEN a ELSE b

Max(a, b) == IF a >= b THEN a ELSE b

\* Python 'sub in s' for strings
Contains(sub, s) ==
    \E i \in 0..(Len(s) - Len(sub)) : SubSeq(s, i + 1, i + Len(sub)) = sub

\* Python s[:n]
Prefix(s, n) == SubSeq(s, 1, Min(n, Len(s)))

UpperToLower ==
    [A |-> "a", B |-> "b", C |-> "c", D |-> "d", E |-> "e", F |-> "f",
     G |-> "g", H |-> "h", I |-> "i", J |-> "j", K |-> "k", L |-> "l",
     M |-> "m", N |-> "n", O |-> "o", P |-> "p", Q |-> "q", R |-> "r",
     S |-> "s", T |-> "t", U |-> "u", V |-> "v", W |-> "w", X |-> "x",
     Y |-> "y", Z |-> "z"]

\* Python str.lower() on the characters used here
Lower(s) ==
    [i \in 1..Len(s) |-> IF s[i] \in DOMAIN UpperToLower
                         THEN UpperToLower[s[i]] ELSE s[i]]

\* Python dict.get(key, default) on a table keyed by strings
Get(table, key, default) == IF key \in DOMAIN table THEN table[key] ELSE default

\* the elements of a sequence
Range(s) == {s[i] : i \in 1..Len(s)}

\* Python list comprehension [x for x in s if test(x)]; test[i] is the value
\* of the condition on s[i]
Filter(s, test) ==
    LET kept[i \in 0..Len(s)] ==
            IF i = 0 THEN <<>>
            ELSE IF test[i] THEN Append(kept[i - 1], s[i]) ELSE kept[i - 1]
    IN kept[Len(s)]

\* Python sorted(s, key=..., reverse=True) / list.sort(key=..., reverse=True),
\* key[i] being the key of s[i]:
\* a stable sort, elements with equal keys keep their original order. The
\* place of s[i] in the result is one more than the number of elements that
\* go before it.
SortDesc(s, key) ==
    LET Before(j, i) ==
            \/ key[j] > key[i]
            \/ key[j] = key[i] /\ j < i
        place(i) == 1 + Cardinality({j \in 1..Len(s) : Before(j, i)})
    IN [p \in 1..Len(s) |-> s[CHOOSE i \in 1..Len(s) : place(i) = p]]

\* ---------------------------------------------------------------------
\* Catalog auth token cache: get_spotify_token and health_check
\* (backend/app/routers/recommendations.py, search.py, backend/main.py)
\* ---------------------------------------------------------------------

\* Python None for the module-level spotify_access_token
None == 0

\* number of coroutines that may call get_spotify_token concurrently
NumCallers == 2
\* number of distinct access tokens the auth endpoint hands out in a run
MaxTokens == 2
\* the wall clock advances in steps of TickStep seconds up to MaxTime
TickStep == 30
MaxTicks == 3
MaxTime == TickStep * MaxTicks
\* 'token_expires_at = current_time + expires_in - 60'
RefreshMargin == 60
\* expires_in values the auth endpoint may answer with
ExpiresInValues == {30, 90, 120}

Callers == 1..NumCallers

\* variant without the early-refresh margin
TokenExpiresAtNoMargin(started_at, expires_in) == started_at + expires_in

\* token_expires_at as computed on a 200 answer, from the current_time read
\* at the start of the call
TokenExpiresAt(started_at, expires_in) == started_at + expires_in - RefreshMargin

\* 'if spotify_access_token and current_time < token_expires_at'
TokenStillValid(t) ==
    spotify_access_token # None /\ t < token_expires_at

InitToken ==
    /\ now = 0
    /\ credentials \in BOOLEAN
    /\ spotify_access_token = None
    /\ token_expires_at = 0
    /\ tpc = [p \in Callers |-> "idle"]
    /\ current_time = [p \in Callers |-> 0]
    /\ refreshed = [p \in Callers |-> FALSE]
    /\ ret = [p \in Callers |-> None]
    /\ issued = <<>>
    /\ spotify_status = "not_available"

\* time.time() moves on between any two steps of the coroutines
Tick ==
    /\ now < MaxTime
    /\ now' = now + TickStep
    /\ UNCHANGED <<notToken, credentials, spotify_access_token, token_expires_at, tpc,
                   current_time, refreshed, ret, issued, spotify_status>>

\* get_spotify_token up to its first suspension point: cached token still
\* valid -> return it
CallCached(p) ==
    /\ tpc[p] = "idle"
    /\ TokenStillValid(now)
    /\ current_time' = [current_time EXCEPT ![p] = now]
    /\ refreshed' = [refreshed EXCEPT ![p] = FALSE]
    /\ ret' = [ret EXCEPT ![p] = spotify_access_token]
    /\ tpc' = [tpc EXCEPT ![p] = "done"]
    /\ UNCHANGED <<notToken, now, credentials, spotify_access_token, token_expires_at,
                   issued, spotify_status>>

\* no valid token and no client id / secret -> return None
CallNotConfigured(p) ==
    /\ tpc[p] = "idle"
    /\ ~TokenStillValid(now)
    /\ ~credentials
    /\ current_time' = [current_time EXCEPT ![p] = now]
    /\ refreshed' = [refreshed EXCEPT ![p] = FALSE]
    /\ ret' = [ret EXCEPT ![p] = None]
    /\ tpc' = [tpc EXCEPT ![p] = "done"]
    /\ UNCHANGED <<notToken, now, credentials, spotify_access_token, token_expires_at,
                   issued, spotify_status>>

\* no valid token: the POST to the auth endpoint is sent and the coroutine
\* is suspended at 'await client.post(...)'
CallRefresh(p) ==
    /\ tpc[p] = "idle"
    /\ ~TokenStillValid(now)
    /\ credentials
    /\ current_time' = [current_time EXCEPT ![p] = now]
    /\ refreshed' = [refreshed EXCEPT ![p] = TRUE]
    /\ ret' = [ret EXCEPT ![p] = None]
    /\ tpc' = [tpc EXCEPT ![p] = "await"]
    /\ UNCHANGED <<notToken, now, credentials, spotify_access_token, token_expires_at,
                   issued, spotify_status>>

\* the POST answers 200: the cache is overwritten and the new token returned
Refresh200(p) ==
    /\ tpc[p] = "await"
    /\ Len(issued) < MaxTokens
    /\ \E expires_in \in ExpiresInValues :
          /\ issued' = Append(issued, [started |-> current_time[p],
                                       expires_in |-> expires_in,
                                       caller |-> p])
          /\ token_expires_at' = TokenExpiresAt(current_time[p], expires_in)
    /\ spotify_access_token' = Len(issued) + 1
    /\ ret' = [ret EXCEPT ![p] = Len(issued) + 1]
    /\ tpc' = [tpc EXCEPT ![p] = "done"]
    /\ UNCHANGED <<notToken, now, credentials, current_time, refreshed, spotify_status>>

\* the POST answers non-200 or raises: None is returned, the globals are
\* left as they were
RefreshFailed(p) ==
    /\ tpc[p] = "await"
    /\ ret' = [ret EXCEPT ![p] = None]
    /\ tpc' = [tpc EXCEPT ![p] = "done"]
    /\ UNCHANGED <<notToken, now, credentials, spotify_access_token, token_expires_at,
                   current_time, refreshed, issued, spotify_status>>

\* the caller has consumed the result: the coroutine and its locals are gone
CallReturn(p) ==
    /\ tpc[p] = "done"
    /\ tpc' = [tpc EXCEPT ![p] = "idle"]
    /\ current_time' = [current_time EXCEPT ![p] = 0]
    /\ refreshed' = [refreshed EXCEPT ![p] = FALSE]
    /\ ret' = [ret EXCEPT ![p] = None]
    /\ UNCHANGED <<notToken, now, credentials, spotify_access_token, token_expires_at,
                   issued, spotify_status>>

\* health_check: 'spotify_status = "available" if spotify_access_token else
\* "not_available"'
HealthCheck ==
    /\ spotify_status' = IF spotify_access_token # None THEN "available"
                         ELSE "not_available"
    /\ UNCHANGED <<notToken, now, credentials, spotify_access_token, token_expires_at,
                   tpc, current_time, refreshed, ret, issued>>

NextToken ==
    \/ Tick
    \/ \E p \in Callers : CallCached(p)
    \/ \E p \in Callers : CallNotConfigured(p)
    \/ \E p \in Callers : CallRefresh(p)
    \/ \E p \in Callers : Refresh200(p)
    \/ \E p \in Callers : RefreshFailed(p)
    \/ \E p \in Callers : CallReturn(p)
    \/ HealthCheck

\* ---------------------------------------------------------------------
\* POST /recommendations: get_recommendations and its helpers
\* (backend/app/routers/recommendations.py)
\* ---------------------------------------------------------------------

\* moods a request may carry; "neutral" is a key of none of the tables below
RequestMoods ==
    {"happy", "peaceful", "energetic", "melancholic", "romantic", "nature",
     "neutral"}

s_genre_colon == <<"g","e","n","r","e",":">>
s_pop == <<"p","o","p">>
s_rock == <<"r","o","c","k">>
s_electronic == <<"e","l","e","c","t","r","o","n","i","c">>
s_classical == <<"c","l","a","s","s","i","c","a","l">>
s_fallback == <<"f","a","l","l","b","a","c","k">>
s_fallback_local == <<"f","a","l","l","b","a","c","k","_","l","o","c","a","l">>
s_pure_scene_based ==
    <<"p","u","r","e","_","s","c","e","n","e","_","b","a","s","e","d">>
s_scene_dominated_personalized ==
    <<"s","c","e","n","e","_","d","o","m","i","n","a","t","e","d","_",
      "p","e","r","s","o","n","a","l","i","z","e","d">>
s_plus_diversified == <<" ","+"," ","d","i","v","e","r","s","i","f","i","e","d">>
s_popular_music == <<"p","o","p","u","l","a","r"," ","m","u","s","i","c">>

\* user_profile values of the request. genre_preferences is the dict in
\* insertion order; a score is in tenths, or is not a number at all
\* (numeric = FALSE, e.g. the string "high"). empty = TRUE is the dict {}
\* (or a missing user_profile key).
Pref(genre, tenths) == [genre |-> genre, score |-> tenths, numeric |-> TRUE]

NotANumber(genre) == [genre |-> genre, score |-> 0, numeric |-> FALSE]

UserProfiles ==
    { [empty |-> TRUE, genre_preferences |-> <<>>],
      [empty |-> FALSE, genre_preferences |-> <<>>],
      [empty |-> FALSE, genre_preferences |->
          <<Pref(s_pop, 8), Pref(s_rock, 6), Pref(s_electronic, 4)>>],
      [empty |-> FALSE, genre_preferences |-> <<Pref(s_pop, 4)>>],
      [empty |-> FALSE, genre_preferences |-> <<Pref(s_classical, 10)>>],
      [empty |-> FALSE, genre_preferences |-> <<NotANumber(s_pop)>>] }

\* scene_based_strategies of _build_search_parameters; strings are tuples of characters
scene_based_strategies ==
    [happy |-> <<
        <<"g","e","n","r","e",":","p","o","p">>,   \* "genre:pop"
        <<"g","e","n","r","e",":","d","a","n","c","e","-","p","o","p">>,   \* "genre:dance-pop"
        <<"p","o","p"," ","c","h","e","e","r","f","u","l">>,   \* "pop cheerful"
        <<"f","e","e","l"," ","g","o","o","d"," ","h","i","t","s">>,   \* "feel good hits"
        <<"u","p","b","e","a","t"," ","p","o","p","u","l","a","r">>,   \* "upbeat popular"
        <<"s","u","n","n","y"," ","p","o","p">>   \* "sunny pop"
        >>,
     peaceful |-> <<
        <<"g","e","n","r","e",":","f","o","l","k">>,   \* "genre:folk"
        <<"g","e","n","r","e",":","a","c","o","u","s","t","i","c">>,   \* "genre:acoustic"
        <<"p","e","a","c","e","f","u","l"," ","i","n","d","i","e">>,   \* "peaceful indie"
        <<"c","a","l","m"," ","a","c","o","u","s","t","i","c">>,   \* "calm acoustic"
        <<"f","o","l","k"," ","p","o","p","u","l","a","r">>,   \* "folk popular"
        <<"n","a","t","u","r","e"," ","a","c","o","u","s","t","i","c">>   \* "nature acoustic"
        >>,
     energetic |-> <<
        <<"g","e","n","r","e",":","r","o","c","k">>,   \* "genre:rock"
        <<"g","e","n","r","e",":","e","l","e","c","t","r","o","n","i","c">>,   \* "genre:electronic"
        <<"g","e","n","r","e",":","d","a","n","c","e">>,   \* "genre:dance"
        <<"h","i","g","h"," ","e","n","e","r","g","y"," ","h","i","t","s">>,   \* "high energy hits"
        <<"w","o","r","k","o","u","t"," ","p","o","p","u","l","a","r">>,   \* "workout popular"
        <<"r","o","c","k"," ","a","n","t","h","e","m","s">>   \* "rock anthems"
        >>,
     melancholic |-> <<
        <<"g","e","n","r","e",":","a","l","t","e","r","n","a","t","i","v","e">>,   \* "genre:alternative"
        <<"g","e","n","r","e",":","i","n","d","i","e","-","r","o","c","k">>,   \* "genre:indie-rock"
        <<"e","m","o","t","i","o","n","a","l"," ","i","n","d","i","e">>,   \* "emotional indie"
        <<"s","a","d"," ","a","l","t","e","r","n","a","t","i","v","e">>,   \* "sad alternative"
        <<"m","e","l","a","n","c","h","o","l","i","c"," ","p","o","p","u","l","a","r">>,   \* "melancholic popular"
        <<"i","n","t","r","o","s","p","e","c","t","i","v","e"," ","h","i","t","s">>   \* "introspective hits"
        >>,
     romantic |-> <<
        <<"g","e","n","r","e",":","p","o","p">>,   \* "genre:pop"
        <<"g","e","n","r","e",":","r","-","n","-","b">>,   \* "genre:r-n-b"
        <<"g","e","n","r","e",":","a","c","o","u","s","t","i","c">>,   \* "genre:acoustic"
        <<"l","o","v","e"," ","s","o","n","g"," ","h","i","t","s">>,   \* "love song hits"
        <<"r","o","m","a","n","t","i","c"," ","p","o","p","u","l","a","r">>,   \* "romantic popular"
        <<"s","o","u","l"," ","b","a","l","l","a","d","s">>   \* "soul ballads"
        >>,
     nature |-> <<
        <<"g","e","n","r","e",":","f","o","l","k">>,   \* "genre:folk"
        <<"g","e","n","r","e",":","i","n","d","i","e","-","f","o","l","k">>,   \* "genre:indie-folk"
        <<"a","c","o","u","s","t","i","c"," ","n","a","t","u","r","e">>,   \* "acoustic nature"
        <<"f","o","l","k"," ","p","o","p","u","l","a","r">>,   \* "folk popular"
        <<"o","r","g","a","n","i","c"," ","a","c","o","u","s","t","i","c">>,   \* "organic acoustic"
        <<"n","a","t","u","r","e"," ","i","n","d","i","e">>   \* "nature indie"
        >>]

\* mood_specific_queries of _build_search_parameters
mood_specific_queries ==
    [peaceful |-> <<
        <<"a","c","o","u","s","t","i","c"," ","p","o","p","u","l","a","r">>,   \* "acoustic popular"
        <<"f","o","l","k"," ","h","i","t","s">>   \* "folk hits"
        >>,
     melancholic |-> <<
        <<"a","l","t","e","r","n","a","t","i","v","e"," ","p","o","p","u","l","a","r">>,   \* "alternative popular"
        <<"i","n","d","i","e"," ","e","m","o","t","i","o","n","a","l">>   \* "indie emotional"
        >>,
     happy |-> <<
        <<"p","o","p"," ","h","i","t","s">>,   \* "pop hits"
        <<"f","e","e","l"," ","g","o","o","d"," ","p","o","p","u","l","a","r">>   \* "feel good popular"
        >>,
     energetic |-> <<
        <<"r","o","c","k"," ","p","o","p","u","l","a","r">>,   \* "rock popular"
        <<"e","l","e","c","t","r","o","n","i","c"," ","h","i","t","s">>   \* "electronic hits"
        >>,
     romantic |-> <<
        <<"l","o","v","e"," ","s","o","n","g"," ","h","i","t","s">>,   \* "love song hits"
        <<"r","&","b"," ","p","o","p","u","l","a","r">>   \* "r&b popular"
        >>]

\* compatibility matrix of _is_genre_mood_compatible
compatibility ==
    [peaceful |-> <<
        <<"f","o","l","k">>,   \* "folk"
        <<"a","c","o","u","s","t","i","c">>,   \* "acoustic"
        <<"i","n","d","i","e">>,   \* "indie"
        <<"a","m","b","i","e","n","t">>,   \* "ambient"
        <<"j","a","z","z">>,   \* "jazz"
        <<"c","l","a","s","s","i","c","a","l">>,   \* "classical"
        <<"n","e","w"," ","a","g","e">>   \* "new age"
        >>,
     nature |-> <<
        <<"f","o","l","k">>,   \* "folk"
        <<"a","c","o","u","s","t","i","c">>,   \* "acoustic"
        <<"i","n","d","i","e","-","f","o","l","k">>,   \* "indie-folk"
        <<"w","o","r","l","d">>,   \* "world"
        <<"a","m","b","i","e","n","t">>,   \* "ambient"
        <<"c","o","u","n","t","r","y">>   \* "country"
        >>,
     melancholic |-> <<
        <<"i","n","d","i","e">>,   \* "indie"
        <<"a","l","t","e","r","n","a","t","i","v","e">>,   \* "alternative"
        <<"f","o","l","k">>,   \* "folk"
        <<"a","c","o","u","s","t","i","c">>,   \* "acoustic"
        <<"b","l","u","e","s">>,   \* "blues"
        <<"a","m","b","i","e","n","t">>   \* "ambient"
        >>,
     romantic |-> <<
        <<"r","&","b">>,   \* "r&b"
        <<"s","o","u","l">>,   \* "soul"
        <<"a","c","o","u","s","t","i","c">>,   \* "acoustic"
        <<"j","a","z","z">>,   \* "jazz"
        <<"i","n","d","i","e">>,   \* "indie"
        <<"p","o","p">>   \* "pop"
        >>,
     happy |-> <<
        <<"p","o","p">>,   \* "pop"
        <<"i","n","d","i","e">>,   \* "indie"
        <<"f","u","n","k">>,   \* "funk"
        <<"d","a","n","c","e">>,   \* "dance"
        <<"e","l","e","c","t","r","o","n","i","c">>,   \* "electronic"
        <<"r","e","g","g","a","e">>   \* "reggae"
        >>,
     energetic |-> <<
        <<"r","o","c","k">>,   \* "rock"
        <<"e","l","e","c","t","r","o","n","i","c">>,   \* "electronic"
        <<"h","i","p","-","h","o","p">>,   \* "hip-hop"
        <<"d","a","n","c","e">>,   \* "dance"
        <<"p","u","n","k">>,   \* "punk"
        <<"m","e","t","a","l">>   \* "metal"
        >>]

\* QUIZ_SONGS: the curated local catalog, in file order; a song is its position,
\* its artist and its genres
QUIZ_SONGS == <<
    [id |-> 1,   \* Taylor Swift: pop, indie pop
     artist |-> <<"T","a","y","l","o","r"," ","S","w","i","f","t">>,
     genres |-> <<<<"p","o","p">>, <<"i","n","d","i","e"," ","p","o","p">>>>],
    [id |-> 2,   \* Taylor Swift: pop, synth-pop
     artist |-> <<"T","a","y","l","o","r"," ","S","w","i","f","t">>,
     genres |-> <<<<"p","o","p">>, <<"s","y","n","t","h","-","p","o","p">>>>],
    [id |-> 3,   \* Harry Styles: pop, art pop
     artist |-> <<"H","a","r","r","y"," ","S","t","y","l","e","s">>,
     genres |-> <<<<"p","o","p">>, <<"a","r","t"," ","p","o","p">>>>],
    [id |-> 4,   \* Ed Sheeran: pop, dance pop
     artist |-> <<"E","d"," ","S","h","e","e","r","a","n">>,
     genres |-> <<<<"p","o","p">>, <<"d","a","n","c","e"," ","p","o","p">>>>],
    [id |-> 5,   \* Queen: rock, classic rock
     artist |-> <<"Q","u","e","e","n">>,
     genres |-> <<<<"r","o","c","k">>, <<"c","l","a","s","s","i","c"," ","r","o","c","k">>>>],
    [id |-> 6,   \* Led Zeppelin: rock, hard rock
     artist |-> <<"L","e","d"," ","Z","e","p","p","e","l","i","n">>,
     genres |-> <<<<"r","o","c","k">>, <<"h","a","r","d"," ","r","o","c","k">>>>],
    [id |-> 7,   \* Journey: rock, arena rock
     artist |-> <<"J","o","u","r","n","e","y">>,
     genres |-> <<<<"r","o","c","k">>, <<"a","r","e","n","a"," ","r","o","c","k">>>>],
    [id |-> 8,   \* Drake: hip hop, pop rap
     artist |-> <<"D","r","a","k","e">>,
     genres |-> <<<<"h","i","p"," ","h","o","p">>, <<"p","o","p"," ","r","a","p">>>>],
    [id |-> 9,   \* Kendrick Lamar: hip hop, conscious rap
     artist |-> <<"K","e","n","d","r","i","c","k"," ","L","a","m","a","r">>,
     genres |-> <<<<"h","i","p"," ","h","o","p">>, <<"c","o","n","s","c","i","o","u","s"," ","r","a","p">>>>],
    [id |-> 10,   \* Lil Nas X: hip hop, country rap
     artist |-> <<"L","i","l"," ","N","a","s"," ","X">>,
     genres |-> <<<<"h","i","p"," ","h","o","p">>, <<"c","o","u","n","t","r","y"," ","r","a","p">>>>],
    [id |-> 11,   \* Zedd: electronic, progressive house
     artist |-> <<"Z","e","d","d">>,
     genres |-> <<<<"e","l","e","c","t","r","o","n","i","c">>, <<"p","r","o","g","r","e","s","s","i","v","e"," ","h","o","u","s","e">>>>],
    [id |-> 12,   \* M83: electronic, synthwave
     artist |-> <<"M","8","3">>,
     genres |-> <<<<"e","l","e","c","t","r","o","n","i","c">>, <<"s","y","n","t","h","w","a","v","e">>>>],
    [id |-> 13,   \* Gotye: indie, alternative
     artist |-> <<"G","o","t","y","e">>,
     genres |-> <<<<"i","n","d","i","e">>, <<"a","l","t","e","r","n","a","t","i","v","e">>>>],
    [id |-> 14,   \* Peter Bjorn and John: indie, indie pop
     artist |-> <<"P","e","t","e","r"," ","B","j","o","r","n"," ","a","n","d"," ","J","o","h","n">>,
     genres |-> <<<<"i","n","d","i","e">>, <<"i","n","d","i","e"," ","p","o","p">>>>],
    [id |-> 15,   \* Childish Gambino: r&b, funk
     artist |-> <<"C","h","i","l","d","i","s","h"," ","G","a","m","b","i","n","o">>,
     genres |-> <<<<"r","&","b">>, <<"f","u","n","k">>>>],
    [id |-> 16,   \* The Weeknd: r&b, synthwave
     artist |-> <<"T","h","e"," ","W","e","e","k","n","d">>,
     genres |-> <<<<"r","&","b">>, <<"s","y","n","t","h","w","a","v","e">>>>],
    [id |-> 17,   \* Florida Georgia Line: country, country pop
     artist |-> <<"F","l","o","r","i","d","a"," ","G","e","o","r","g","i","a"," ","L","i","n","e">>,
     genres |-> <<<<"c","o","u","n","t","r","y">>, <<"c","o","u","n","t","r","y"," ","p","o","p">>>>],
    [id |-> 18,   \* Lady Antebellum: country, country pop
     artist |-> <<"L","a","d","y"," ","A","n","t","e","b","e","l","l","u","m">>,
     genres |-> <<<<"c","o","u","n","t","r","y">>, <<"c","o","u","n","t","r","y"," ","p","o","p">>>>],
    [id |-> 19,   \* Imagine Dragons: alternative, rock
     artist |-> <<"I","m","a","g","i","n","e"," ","D","r","a","g","o","n","s">>,
     genres |-> <<<<"a","l","t","e","r","n","a","t","i","v","e">>, <<"r","o","c","k">>>>],
    [id |-> 20,   \* Foster the People: alternative, indie pop
     artist |-> <<"F","o","s","t","e","r"," ","t","h","e"," ","P","e","o","p","l","e">>,
     genres |-> <<<<"a","l","t","e","r","n","a","t","i","v","e">>, <<"i","n","d","i","e"," ","p","o","p">>>>]>>

\* bool(user_profile)
ProfileTruthy(profile) == ~profile.empty

\* 'user_profile and user_profile.get("genre_preferences")'
HasGenrePreferences(profile) ==
    ProfileTruthy(profile) /\ profile.genre_preferences # <<>>

\* 'score > 0.5' on tenths
ScoreAboveHalf(score) == score > 5

\* _is_genre_mood_compatible(genre, mood)
IsGenreMoodCompatible(genre, m) ==
    LET compatible_genres == Get(compatibility, m, <<>>)
        genre_lower == Lower(genre)
    IN \E k \in 1..Len(compatible_genres) :
          Contains(compatible_genres[k], genre_lower)

ScoreKey(item) == item.score

\* 'sorted(genre_prefs.items(), key=lambda x: x[1], reverse=True)[:3]'
TopUserGenres(profile) ==
    LET prefs == profile.genre_preferences
    IN Prefix(SortDesc(prefs, [i \in 1..Len(prefs) |-> ScoreKey(prefs[i])]), 3)

\* the loop over top_user_genres: the queries it appends, given how many it
\* has appended so far
RECURSIVE UserGenreQueries(_, _, _)
UserGenreQueries(top_user_genres, m, user_genre_count) ==
    IF top_user_genres = <<>> THEN <<>>
    ELSE LET item == Head(top_user_genres)
         IN IF ScoreAboveHalf(item.score) /\ user_genre_count < 1
               /\ IsGenreMoodCompatible(item.genre, m)
            THEN <<s_genre_colon \o item.genre>>
                 \o UserGenreQueries(Tail(top_user_genres), m,
                                     user_genre_count + 1)
            ELSE UserGenreQueries(Tail(top_user_genres), m, user_genre_count)

\* a comparison of a score that is not a number with 0.5 raises TypeError
ProfileRaises(profile) ==
    /\ HasGenrePreferences(profile)
    /\ \E k \in 1..Len(profile.genre_preferences) :
          ~profile.genre_preferences[k].numeric

\* _build_search_parameters(mood, caption, user_profile), for a profile on
\* which it does not raise
BuildSearchParameters(m, profile) ==
    LET scene_searches ==
            Get(scene_based_strategies, m, scene_based_strategies["happy"])
        user_queries ==
            IF HasGenrePreferences(profile)
            THEN UserGenreQueries(TopUserGenres(profile), m, 0)
            ELSE <<>>
        specific_queries == Get(mood_specific_queries, m, <<s_popular_music>>)
        final_queries ==
            Prefix(scene_searches, 4) \o user_queries \o Prefix(specific_queries, 2)
    IN [queries |-> Prefix(final_queries, 7),
        strategy |-> IF HasGenrePreferences(profile)
                     THEN s_scene_dominated_personalized
                     ELSE s_pure_scene_based]

\* --- the external catalog (search endpoint), as seen by one request ------

\* the catalog answers the k-th query of a plan with PageSize consecutive
\* track ids starting (k-1)*shift + 1: shift 0 makes every query return the
\* same tracks, a shift of 4 or more makes the used parts disjoint
MaxShift == 4
PageSize == 5
\* number of distinct artists in the catalog
MaxArtists == 4

\* spellings under which the catalog lists an artist
ArtistSpellings ==
    << << <<"A","d","e","l","e">>, <<"A","D","E","L","E">> >>,
       << <<"D","r","a","k","e">>, <<"d","r","a","k","e">> >>,
       << <<"Q","u","e","e","n">>, <<"Q","U","E","E","N">> >>,
       << <<"Z","e","d","d">>, <<"Z","E","D","D">> >>,
       << <<"M","8","3">>, <<"m","8","3">> >>,
       << <<"G","o","t","y","e">>, <<"G","O","T","Y","E">> >> >>

\* a track id is a unique catalog identifier: artist and popularity are
\* functions of the id
CatalogArtist(id, artists) ==
    ArtistSpellings[(id % artists) + 1][((id \div artists) % 2) + 1]

CatalogPopularity(id) == (id * 37) % 101

\* search_response.json()['tracks']['items'] for the k-th query
SearchItems(k, cat) ==
    [j \in 1..PageSize |->
        LET id == (k - 1) * cat.shift + j
        IN [id |-> id, artist |-> CatalogArtist(id, cat.artists),
            popularity |-> CatalogPopularity(id)]]

\* the track_data dicts built from 'tracks[:4]' for one query
QueryTracks(items, search_query) ==
    LET first == Prefix(items, 4)
    IN [j \in 1..Len(first) |->
          [id |-> first[j].id, artist |-> first[j].artist,
           popularity |-> first[j].popularity,
           search_type |-> Prefix(search_query, 20)]]

\* --- _diversified_track_selection ----------------------------------------

max_per_artist == 2
TargetSize == 8

\* 'Remove exact duplicates by track ID': the first occurrence of an id stays
RECURSIVE UniqueFrom(_, _)
UniqueFrom(unique_tracks, tracks) ==
    IF tracks = <<>> THEN unique_tracks
    ELSE IF \E j \in 1..Len(unique_tracks) : unique_tracks[j].id = Head(tracks).id
         THEN UniqueFrom(unique_tracks, Tail(tracks))
         ELSE UniqueFrom(Append(unique_tracks, Head(tracks)), Tail(tracks))

\* variant of the duplicate removal in which the last occurrence of an id
\* stays instead of the first
RECURSIVE UniqueTracksLastWins(_)
UniqueTracksLastWins(tracks) ==
    IF tracks = <<>> THEN <<>>
    ELSE LET rest == Tail(tracks)
         IN IF \E j \in 1..Len(rest) : rest[j].id = Head(tracks).id
            THEN UniqueTracksLastWins(rest)
            ELSE <<Head(tracks)>> \o UniqueTracksLastWins(rest)

\* variant without duplicate removal
UniqueTracksKeepsAll(tracks) == tracks

UniqueTracks(tracks) == UniqueFrom(<<>>, tracks)

\* list(search_type_groups.keys()): search types in order of first appearance
RECURSIVE SearchTypesFrom(_, _)
SearchTypesFrom(search_types, tracks) ==
    IF tracks = <<>> THEN search_types
    ELSE IF \E j \in 1..Len(search_types) : search_types[j] = Head(tracks).search_type
         THEN SearchTypesFrom(search_types, Tail(tracks))
         ELSE SearchTypesFrom(Append(search_types, Head(tracks).search_type),
                              Tail(tracks))

SearchTypes(unique_tracks) == SearchTypesFrom(<<>>, unique_tracks)

\* search_type_groups as a list parallel to search_types
SearchTypeGroups(unique_tracks) ==
    LET search_types == SearchTypes(unique_tracks)
    IN [g \in 1..Len(search_types) |->
          LET InGroup(t) == t.search_type = search_types[g]
          IN Filter(unique_tracks,
                    [i \in 1..Len(unique_tracks) |-> InGroup(unique_tracks[i])])]

\* 'sum(1 for t in final_recommendations if t["artist"].lower() == artist)'
ArtistCount(final_recommendations, artist) ==
    Cardinality({j \in 1..Len(final_recommendations) :
                    Lower(final_recommendations[j].artist) = artist})

\* variant of the artist test that lower-cases only the tracks already
\* selected
ArtistAllowedAnyCase(final_recommendations, track) ==
    ArtistCount(final_recommendations, track.artist) < max_per_artist

\* 'artist_count < max_per_artist' with 'artist = track["artist"].lower()'
ArtistAllowed(final_recommendations, track) ==
    ArtistCount(final_recommendations, Lower(track.artist)) < max_per_artist

\* variant of the search in a group that admits only artists that were not
\* selected before (the unused 'seen_artists' set of the function)
FirstNewArtist(final_recommendations, tracks_for_type) ==
    LET ok == {j \in 1..Len(tracks_for_type) :
                  ArtistCount(final_recommendations,
                              Lower(tracks_for_type[j].artist)) = 0}
    IN IF ok = {} THEN 0 ELSE CHOOSE j \in ok : \A i \in ok : j <= i

\* index of the first track of the group that may still be added, 0 if none
FirstAllowed(final_recommendations, tracks_for_type) ==
    LET ok == {j \in 1..Len(tracks_for_type) :
                  ArtistAllowed(final_recommendations, tracks_for_type[j])}
    IN IF ok = {} THEN 0 ELSE CHOOSE j \in ok : \A i \in ok : j <= i

RemoveAt(s, j) == SubSeq(s, 1, j - 1) \o SubSeq(s, j + 1, Len(s))

\* the while loop: round-robin over the search types
RECURSIVE RoundRobin(_, _, _)
RoundRobin(final_recommendations, groups, search_index) ==
    IF ~(Len(final_recommendations) < TargetSize
         /\ \E g \in 1..Len(groups) : groups[g] # <<>>)
    THEN final_recommendations
    ELSE LET g == (search_index % Len(groups)) + 1
             tracks_for_type == groups[g]
             j == FirstAllowed(final_recommendations, tracks_for_type)
         IN IF tracks_for_type = <<>>
            THEN RoundRobin(final_recommendations, groups, search_index + 1)
            ELSE IF j # 0
            THEN RoundRobin(Append(final_recommendations, tracks_for_type[j]),
                            [groups EXCEPT ![g] = RemoveAt(tracks_for_type, j)],
                            search_index + 1)
            ELSE RoundRobin(final_recommendations,
                            [groups EXCEPT ![g] = <<>>], search_index + 1)

PopularityKey(track) == track.popularity

\* _diversified_track_selection(all_tracks)
DiversifiedTrackSelection(tracks) ==
    IF tracks = <<>> THEN <<>>
    ELSE LET unique_tracks == UniqueTracks(tracks)
             selected == RoundRobin(<<>>, SearchTypeGroups(unique_tracks), 0)
         IN Prefix(SortDesc(selected,
                    [i \in 1..Len(selected) |-> PopularityKey(selected[i])]), TargetSize)

\* --- _get_fallback_recommendations ---------------------------------------

\* mood_song_count of _get_fallback_recommendations
mood_song_count ==
    [happy |-> 4, energetic |-> 4, peaceful |-> 3, melancholic |-> 3,
     romantic |-> 3, nature |-> 3]

\* random.sample(population, k): every choice of k distinct positions lo..n
\* is possible; a sample is listed in population order
RECURSIVE Samples(_, _, _)
Samples(lo, n, k) ==
    IF k = 0 THEN {<<>>}
    ELSE UNION {{<<i>> \o s : s \in Samples(i + 1, n, k - 1)} :
                   i \in lo..(n - k + 1)}

\* '[genre for genre, score in genre_prefs.items() if score > 0.5]'
TopGenres(profile) ==
    LET Liked(item) == ScoreAboveHalf(item.score)
        liked == LET prefs == profile.genre_preferences
                 IN Filter(prefs, [i \in 1..Len(prefs) |-> Liked(prefs[i])])
    IN {liked[k].genre : k \in 1..Len(liked)}

\* the songs of QUIZ_SONGS with 'any(genre in song["genres"] for genre in
\* top_genres)', as positions in QUIZ_SONGS
SongsOfGenres(top_genres) ==
    LET Matches(song) == \E genre \in top_genres : genre \in Range(song.genres)
        matched == Filter(QUIZ_SONGS, [i \in 1..Len(QUIZ_SONGS) |-> Matches(QUIZ_SONGS[i])])
    IN [k \in 1..Len(matched) |-> matched[k].id]

\* the response dict of get_recommendations
Response(status, success, recommendations, search_strategy, total_found, personalized) ==
    [status |-> status, success |-> success,
     recommendations |-> recommendations,
     search_strategy |-> search_strategy, total_found |-> total_found,
     personalized |-> personalized]

\* variant in which the handler answers an exception with an empty success
\* response
DegradedResponse == Response(200, TRUE, <<>>, <<>>, 0, FALSE)

\* 'except Exception as e: raise HTTPException(status_code=500, ...)'
ErrorResponse == Response(500, FALSE, <<>>, <<>>, 0, FALSE)

\* the dict returned by _get_fallback_recommendations for the chosen
\* mood_songs
FallbackResponse(mood_songs, profile) ==
    Response(200, TRUE, Prefix(mood_songs, 6), s_fallback_local,
             Len(mood_songs), ProfileTruthy(profile))

\* --- the request handler -------------------------------------------------

\* variant of the except branch of the search loop that leaves the loop: the
\* remaining queries are not issued
LoopBreaksAfterFailure(done, n) ==
    Append(done, "failed") \o [j \in 1..(n - Len(done) - 1) |-> "skipped"]

\* the except branch ('continue') and the non-200 branch of the search loop:
\* the query is recorded as failed and the next one is due
LoopAfterFailure(done, n) == Append(done, "failed")

InitRec ==
    /\ rpc = "start"
    /\ mood \in RequestMoods
    /\ user_profile \in UserProfiles
    /\ auth = "pending"
    /\ catalog = [shift |-> 0, artists |-> 1]
    /\ search_queries = <<>>
    /\ strategy = <<>>
    /\ outcomes = <<>>
    /\ all_tracks = <<>>
    /\ response = Response(0, FALSE, <<>>, <<>>, 0, FALSE)

\* 'token = await get_spotify_token()' gives None (credentials missing, or
\* the auth endpoint failed) and the profile has genre preferences
FallbackByGenres ==
    /\ rpc = "start"
    /\ HasGenrePreferences(user_profile)
    /\ auth' = "no_token"
    /\ response' = IF ProfileRaises(user_profile) THEN ErrorResponse
                   ELSE FallbackResponse(SongsOfGenres(TopGenres(user_profile)),
                                         user_profile)
    /\ rpc' = "done"
    /\ UNCHANGED <<notRec, mood, user_profile, catalog, search_queries, strategy,
                   outcomes, all_tracks>>

\* the same without genre preferences: a random sample of the quiz songs
FallbackByMood ==
    /\ rpc = "start"
    /\ ~HasGenrePreferences(user_profile)
    /\ auth' = "no_token"
    /\ \E selected_songs \in
            Samples(1, Len(QUIZ_SONGS),
                    Min(Get(mood_song_count, mood, 4), Len(QUIZ_SONGS))) :
          response' = FallbackResponse(selected_songs, user_profile)
    /\ rpc' = "done"
    /\ UNCHANGED <<notRec, mood, user_profile, catalog, search_queries, strategy,
                   outcomes, all_tracks>>

\* a token is returned and _build_search_parameters raises
BuildPlanRaises ==
    /\ rpc = "start"
    /\ ProfileRaises(user_profile)
    /\ auth' = "token"
    /\ response' = ErrorResponse
    /\ rpc' = "done"
    /\ UNCHANGED <<notRec, mood, user_profile, catalog, search_queries, strategy,
                   outcomes, all_tracks>>

\* a token is returned and the query plan is built; the catalog the
\* searches of this request will see is fixed here
BuildPlan ==
    /\ rpc = "start"
    /\ ~ProfileRaises(user_profile)
    /\ auth' = "token"
    /\ \E shift \in 0..MaxShift, artists \in 1..MaxArtists :
          catalog' = [shift |-> shift, artists |-> artists]
    /\ LET search_params == BuildSearchParameters(mood, user_profile)
       IN /\ search_queries' = search_params.queries
          /\ strategy' = search_params.strategy
    /\ rpc' = "search"
    /\ UNCHANGED <<notRec, mood, user_profile, outcomes, all_tracks, response>>

\* one iteration of 'for search_query in search_params["queries"]' whose GET
\* answers 200 with well-formed items
SearchOk ==
    /\ rpc = "search"
    /\ Len(outcomes) < Len(search_queries)
    /\ LET k == Len(outcomes) + 1
       IN all_tracks' = all_tracks
              \o QueryTracks(SearchItems(k, catalog), search_queries[k])
    /\ outcomes' = Append(outcomes, "ok")
    /\ UNCHANGED <<notRec, rpc, mood, user_profile, auth, catalog, search_queries,
                   strategy, response>>

\* one iteration whose GET answers non-200, raises (timeout, connection
\* error) or answers 200 with a body that raises while it is read: nothing
\* is added and the loop goes on
SearchFailed ==
    /\ rpc = "search"
    /\ Len(outcomes) < Len(search_queries)
    /\ \E kind \in {"non_200", "exception", "malformed_body"} :
          outcomes' = LoopAfterFailure(outcomes, Len(search_queries))
    /\ UNCHANGED <<notRec, rpc, mood, user_profile, auth, catalog, search_queries,
                   strategy, all_tracks, response>>

\* after the loop: diversified selection and the success response
Finish ==
    /\ rpc = "search"
    /\ Len(outcomes) = Len(search_queries)
    /\ LET recommendations == DiversifiedTrackSelection(all_tracks)
       IN response' = Response(200, TRUE, recommendations,
                               strategy \o s_plus_diversified,
                               Len(recommendations),
                               ProfileTruthy(user_profile))
    /\ rpc' = "done"
    /\ UNCHANGED <<notRec, mood, user_profile, auth, catalog, search_queries, strategy,
                   outcomes, all_tracks>>

NextRec ==
    \/ FallbackByGenres
    \/ FallbackByMood
    \/ BuildPlanRaises
    \/ BuildPlan
    \/ SearchOk
    \/ SearchFailed
    \/ Finish

\* ---------------------------------------------------------------------
\* EnhancedMoodAnalyzer (app/services/enhanced_mood_service.py)
\* ---------------------------------------------------------------------

\* captions handed to analyze_comprehensive_mood
SunnyBeach ==
    <<"a"," ","s","u","n","n","y"," ","b","e","a","c","h"," ","w","i","t","h"," ","b","l","u","e"," ","w","a","t","e","r"," ","a","n","d"," ","p","a","l","m"," ","t","r","e","e","s">>

Captions ==
    { SunnyBeach,   \* "a sunny beach with blue water and palm trees"
      <<"A"," ","H","a","p","p","y"," ","b","i","r","t","h","d","a","y"," ","p","a","r","t","y"," ","w","i","t","h"," ","f","r","i","e","n","d","s">>,   \* "A Happy birthday party with friends"
      <<"a"," ","d","a","r","k"," ","s","t","r","e","e","t"," ","a","t"," ","n","i","g","h","t"," ","w","i","t","h"," ","r","a","i","n">>,   \* "a dark street at night with rain"
      <<"a"," ","r","o","m","a","n","t","i","c"," ","c","o","u","p","l","e">>,   \* "a romantic couple"
      <<"a"," ","t","r","a","i","n"," ","s","t","a","t","i","o","n"," ","i","n"," ","t","h","e"," ","c","i","t","y">>,   \* "a train station in the city"
      <<>> }   \* ""

Color(r, g, b, percentage) == [rgb |-> <<r, g, b>>, percentage |-> percentage]

SunnyBeachColors ==
    <<Color(255, 255, 0, 35), Color(0, 150, 255, 40), Color(34, 139, 34, 25)>>

\* dominant_colors lists handed to analyze_comprehensive_mood
ColorLists ==
    { SunnyBeachColors,
      <<>>,
      <<Color(255, 255, 0, 100)>>,
      <<Color(0, 0, 255, 60), Color(0, 0, 230, 40)>>,
      <<Color(255, 0, 0, 50), Color(255, 165, 0, 35), Color(255, 255, 255, 15)>>,
      <<Color(255, 180, 200, 80), Color(10, 10, 10, 10), Color(160, 32, 240, 5),
        Color(255, 255, 0, 5)>>,
      <<Color(0, 255, 0, 90), Color(34, 139, 34, 10)>>,
      <<Color(160, 32, 240, 100)>> }

\* the moods of mood_categories, in dict order
MoodOrder == <<"happy", "peaceful", "melancholic", "energetic", "romantic", "nature", "mysterious">>

\* mood_categories[mood]["keywords"], as lists
keywords ==
    [happy |-> <<
        <<"h","a","p","p","y">>,   \* "happy"
        <<"j","o","y">>,   \* "joy"
        <<"s","m","i","l","e">>,   \* "smile"
        <<"c","e","l","e","b","r","a","t","i","o","n">>,   \* "celebration"
        <<"p","a","r","t","y">>,   \* "party"
        <<"f","u","n">>,   \* "fun"
        <<"b","r","i","g","h","t">>,   \* "bright"
        <<"c","h","e","e","r","f","u","l">>,   \* "cheerful"
        <<"e","x","c","i","t","e","d">>,   \* "excited"
        <<"l","a","u","g","h","t","e","r">>   \* "laughter"
        >>,
     peaceful |-> <<
        <<"c","a","l","m">>,   \* "calm"
        <<"p","e","a","c","e","f","u","l">>,   \* "peaceful"
        <<"q","u","i","e","t">>,   \* "quiet"
        <<"s","e","r","e","n","e">>,   \* "serene"
        <<"r","e","l","a","x","i","n","g">>,   \* "relaxing"
        <<"t","r","a","n","q","u","i","l">>,   \* "tranquil"
        <<"m","e","d","i","t","a","t","i","o","n">>,   \* "meditation"
        <<"z","e","n">>   \* "zen"
        >>,
     melancholic |-> <<
        <<"s","a","d">>,   \* "sad"
        <<"d","a","r","k">>,   \* "dark"
        <<"l","o","n","e","l","y">>,   \* "lonely"
        <<"r","a","i","n">>,   \* "rain"
        <<"g","r","a","y">>,   \* "gray"
        <<"m","e","l","a","n","c","h","o","l","y">>,   \* "melancholy"
        <<"d","e","p","r","e","s","s","e","d">>,   \* "depressed"
        <<"g","l","o","o","m","y">>   \* "gloomy"
        >>,
     energetic |-> <<
        <<"e","n","e","r","g","y">>,   \* "energy"
        <<"a","c","t","i","o","n">>,   \* "action"
        <<"s","p","o","r","t","s">>,   \* "sports"
        <<"r","u","n","n","i","n","g">>,   \* "running"
        <<"d","a","n","c","i","n","g">>,   \* "dancing"
        <<"w","o","r","k","o","u","t">>,   \* "workout"
        <<"a","c","t","i","v","e">>,   \* "active"
        <<"d","y","n","a","m","i","c">>   \* "dynamic"
        >>,
     romantic |-> <<
        <<"l","o","v","e">>,   \* "love"
        <<"r","o","m","a","n","t","i","c">>,   \* "romantic"
        <<"c","o","u","p","l","e">>,   \* "couple"
        <<"k","i","s","s">>,   \* "kiss"
        <<"r","o","m","a","n","t","i","c">>,   \* "romantic"
        <<"i","n","t","i","m","a","t","e">>,   \* "intimate"
        <<"t","e","n","d","e","r">>   \* "tender"
        >>,
     nature |-> <<
        <<"n","a","t","u","r","e">>,   \* "nature"
        <<"o","u","t","d","o","o","r">>,   \* "outdoor"
        <<"f","o","r","e","s","t">>,   \* "forest"
        <<"m","o","u","n","t","a","i","n">>,   \* "mountain"
        <<"b","e","a","c","h">>,   \* "beach"
        <<"o","c","e","a","n">>,   \* "ocean"
        <<"t","r","e","e","s">>,   \* "trees"
        <<"l","a","n","d","s","c","a","p","e">>   \* "landscape"
        >>,
     mysterious |-> <<
        <<"d","a","r","k">>,   \* "dark"
        <<"s","h","a","d","o","w">>,   \* "shadow"
        <<"m","y","s","t","e","r","y">>,   \* "mystery"
        <<"n","i","g","h","t">>,   \* "night"
        <<"m","y","s","t","e","r","i","o","u","s">>,   \* "mysterious"
        <<"u","n","k","n","o","w","n">>,   \* "unknown"
        <<"g","o","t","h","i","c">>   \* "gothic"
        >>]

\* mood_categories[mood]["base_features"]: the six 0..1 features in tenths,
\* tempo in BPM
base_features ==
    [happy |-> [valence |-> 8, energy |-> 7, danceability |-> 7, acousticness |-> 3, instrumentalness |-> 3, speechiness |-> 1,
        tempo |-> 130],
     peaceful |-> [valence |-> 6, energy |-> 3, danceability |-> 3, acousticness |-> 8, instrumentalness |-> 6, speechiness |-> 1,
        tempo |-> 80],
     melancholic |-> [valence |-> 2, energy |-> 4, danceability |-> 3, acousticness |-> 6, instrumentalness |-> 4, speechiness |-> 1,
        tempo |-> 70],
     energetic |-> [valence |-> 7, energy |-> 9, danceability |-> 8, acousticness |-> 2, instrumentalness |-> 2, speechiness |-> 1,
        tempo |-> 140],
     romantic |-> [valence |-> 7, energy |-> 4, danceability |-> 4, acousticness |-> 5, instrumentalness |-> 3, speechiness |-> 1,
        tempo |-> 90],
     nature |-> [valence |-> 6, energy |-> 5, danceability |-> 4, acousticness |-> 7, instrumentalness |-> 5, speechiness |-> 1,
        tempo |-> 100],
     mysterious |-> [valence |-> 3, energy |-> 6, danceability |-> 5, acousticness |-> 4, instrumentalness |-> 6, speechiness |-> 1,
        tempo |-> 110]]

\* color_psychology: impact per attribute in tenths, as (attribute, value) lists
color_psychology ==
    [red |-> <<[attribute |-> "energy", value |-> 3], [attribute |-> "valence", value |-> 2], [attribute |-> "arousal", value |-> 4]>>,
     blue |-> <<[attribute |-> "energy", value |-> -2], [attribute |-> "valence", value |-> -1], [attribute |-> "calmness", value |-> 4]>>,
     yellow |-> <<[attribute |-> "valence", value |-> 4], [attribute |-> "energy", value |-> 2], [attribute |-> "happiness", value |-> 5]>>,
     green |-> <<[attribute |-> "valence", value |-> 1], [attribute |-> "energy", value |-> 0], [attribute |-> "nature", value |-> 4]>>,
     purple |-> <<[attribute |-> "energy", value |-> 1], [attribute |-> "mystery", value |-> 3], [attribute |-> "sophistication", value |-> 2]>>,
     orange |-> <<[attribute |-> "energy", value |-> 3], [attribute |-> "valence", value |-> 3], [attribute |-> "warmth", value |-> 4]>>,
     pink |-> <<[attribute |-> "valence", value |-> 2], [attribute |-> "romance", value |-> 4], [attribute |-> "softness", value |-> 3]>>,
     black |-> <<[attribute |-> "energy", value |-> -3], [attribute |-> "valence", value |-> -2], [attribute |-> "sophistication", value |-> 2]>>,
     white |-> <<[attribute |-> "energy", value |-> 1], [attribute |-> "purity", value |-> 4], [attribute |-> "minimalism", value |-> 3]>>,
     gray |-> <<[attribute |-> "energy", value |-> -1], [attribute |-> "valence", value |-> -1], [attribute |-> "neutrality", value |-> 2]>>]

\* scene_indicators of _analyze_scene_context
scene_indicators ==
    [indoor |-> <<
        <<"r","o","o","m">>,   \* "room"
        <<"k","i","t","c","h","e","n">>,   \* "kitchen"
        <<"b","e","d","r","o","o","m">>,   \* "bedroom"
        <<"o","f","f","i","c","e">>,   \* "office"
        <<"h","o","u","s","e">>,   \* "house"
        <<"b","u","i","l","d","i","n","g">>   \* "building"
        >>,
     outdoor |-> <<
        <<"o","u","t","s","i","d","e">>,   \* "outside"
        <<"p","a","r","k">>,   \* "park"
        <<"s","t","r","e","e","t">>,   \* "street"
        <<"g","a","r","d","e","n">>,   \* "garden"
        <<"y","a","r","d">>,   \* "yard"
        <<"f","i","e","l","d">>   \* "field"
        >>,
     nature |-> <<
        <<"t","r","e","e">>,   \* "tree"
        <<"f","o","r","e","s","t">>,   \* "forest"
        <<"m","o","u","n","t","a","i","n">>,   \* "mountain"
        <<"o","c","e","a","n">>,   \* "ocean"
        <<"l","a","k","e">>,   \* "lake"
        <<"s","k","y">>,   \* "sky"
        <<"b","e","a","c","h">>   \* "beach"
        >>,
     urban |-> <<
        <<"c","i","t","y">>,   \* "city"
        <<"b","u","i","l","d","i","n","g">>,   \* "building"
        <<"s","t","r","e","e","t">>,   \* "street"
        <<"c","a","r">>,   \* "car"
        <<"t","r","a","f","f","i","c">>,   \* "traffic"
        <<"d","o","w","n","t","o","w","n">>   \* "downtown"
        >>,
     social |-> <<
        <<"p","e","o","p","l","e">>,   \* "people"
        <<"g","r","o","u","p">>,   \* "group"
        <<"c","r","o","w","d">>,   \* "crowd"
        <<"f","a","m","i","l","y">>,   \* "family"
        <<"f","r","i","e","n","d","s">>,   \* "friends"
        <<"c","o","u","p","l","e">>   \* "couple"
        >>,
     solitary |-> <<
        <<"a","l","o","n","e">>,   \* "alone"
        <<"s","i","n","g","l","e">>,   \* "single"
        <<"o","n","e"," ","p","e","r","s","o","n">>,   \* "one person"
        <<"i","n","d","i","v","i","d","u","a","l">>   \* "individual"
        >>,
     time_day |-> <<
        <<"m","o","r","n","i","n","g">>,   \* "morning"
        <<"d","a","y">>,   \* "day"
        <<"n","o","o","n">>,   \* "noon"
        <<"b","r","i","g","h","t">>,   \* "bright"
        <<"s","u","n","n","y">>   \* "sunny"
        >>,
     time_night |-> <<
        <<"n","i","g","h","t">>,   \* "night"
        <<"d","a","r","k">>,   \* "dark"
        <<"e","v","e","n","i","n","g">>,   \* "evening"
        <<"s","u","n","s","e","t">>,   \* "sunset"
        <<"d","u","s","k">>   \* "dusk"
        >>]

\* --- arithmetic ----------------------------------------------------------
\* Confidences are fractions with denominators 7, 8, 10 (keyword list sizes)
\* and 10 (tenths); they are kept exactly, as integers in units of 1/ConfUnit.
\* A confidence times a weight given in tenths is in units of 1/FusedUnit.
ConfUnit == 7 * 8 * 10 * 5
FusedUnit == ConfUnit * 10

\* a number given in tenths (0.6 -> 6), as a confidence
Tenths(n) == n * (ConfUnit \div 10)

\* --- _analyze_text_mood --------------------------------------------------

\* 'score' of one mood: one point per list entry that occurs in the caption
TextScore(m, text) ==
    Cardinality({k \in 1..Len(keywords[m]) : Contains(keywords[m][k], text)})

\* 'min(score / len(config["keywords"]), 1.0)'
TextConfidence(m, text) ==
    Min((TextScore(m, text) * ConfUnit) \div Len(keywords[m]), ConfUnit)

\* variant of max in which the last item with the greatest key wins
LastMax(items, key) ==
    LET best == CHOOSE k \in 1..Len(items) :
                   /\ \A j \in 1..Len(items) : key[j] <= key[k]
                   /\ \A j \in (k + 1)..Len(items) : key[j] < key[k]
    IN items[best]

\* Python max(items, key=...): the first item with the greatest key
FirstMax(items, key) ==
    LET best == CHOOSE k \in 1..Len(items) :
                   /\ \A j \in 1..Len(items) : key[j] <= key[k]
                   /\ \A j \in 1..(k - 1) : key[j] < key[k]
    IN items[best]

AnalyzeTextMood(text) ==
    LET Score(m) == TextScore(m, text)
        primary == FirstMax(MoodOrder, [i \in 1..Len(MoodOrder) |-> Score(MoodOrder[i])])
    IN IF Score(primary) > 0
       THEN [primary_mood |-> primary,
             confidence |-> TextConfidence(primary, text)]
       ELSE [primary_mood |-> "neutral", confidence |-> Tenths(1)]

\* --- _analyze_color_mood -------------------------------------------------

\* _rgb_to_color_name
RgbToColorName(rgb) ==
    LET r == rgb[1]
        g == rgb[2]
        b == rgb[3]
    IN IF r > 200 /\ g < 100 /\ b < 100 THEN "red"
       ELSE IF r > 200 /\ g > 200 /\ b < 100 THEN "yellow"
       ELSE IF r < 100 /\ g > 200 /\ b < 100 THEN "green"
       ELSE IF r < 100 /\ g < 100 /\ b > 200 THEN "blue"
       ELSE IF r > 150 /\ g < 150 /\ b > 150 THEN "purple"
       ELSE IF r > 200 /\ g > 150 /\ b < 100 THEN "orange"
       ELSE IF r > 200 /\ g > 150 /\ b > 150 THEN "pink"
       ELSE IF r < 50 /\ g < 50 /\ b < 50 THEN "black"
       ELSE IF r > 200 /\ g > 200 /\ b > 200 THEN "white"
       ELSE "gray"

\* value of an attribute in a color's psychological impact, 0 if absent
ImpactValue(color_name, attribute) ==
    LET impact == color_psychology[color_name]
        hits == {k \in 1..Len(impact) : impact[k].attribute = attribute}
    IN IF hits = {} THEN 0 ELSE impact[CHOOSE k \in hits : TRUE].value

HasAttribute(color_name, attribute) ==
    \E k \in 1..Len(color_psychology[color_name]) :
        color_psychology[color_name][k].attribute = attribute

\* total_mood_impact[attribute] in thousandths: sum of value (tenths) times
\* percentage over the colors looked at
RECURSIVE TotalImpact(_, _)
TotalImpact(top_colors, attribute) ==
    IF top_colors = <<>> THEN 0
    ELSE ImpactValue(RgbToColorName(Head(top_colors).rgb), attribute)
             * Head(top_colors).percentage
         + TotalImpact(Tail(top_colors), attribute)

\* 'attribute in impact'
ImpactHas(top_colors, attribute) ==
    \E k \in 1..Len(top_colors) :
        HasAttribute(RgbToColorName(top_colors[k].rgb), attribute)

\* _color_impact_to_mood; thresholds 0.3 and 0.2 in thousandths
ColorImpactToMood(top_colors) ==
    LET Over(attribute, threshold) ==
            /\ ImpactHas(top_colors, attribute)
            /\ TotalImpact(top_colors, attribute) > threshold
    IN IF Over("happiness", 300) THEN "happy"
       ELSE IF Over("calmness", 300) THEN "peaceful"
       ELSE IF Over("energy", 300) THEN "energetic"
       ELSE IF Over("romance", 300) THEN "romantic"
       ELSE IF Over("nature", 300) THEN "nature"
       ELSE IF Over("mystery", 200) THEN "mysterious"
       ELSE "neutral"

\* len(color_influences): the dict is keyed by color name
NumColorInfluences(top_colors) ==
    Cardinality({RgbToColorName(top_colors[k].rgb) : k \in 1..Len(top_colors)})

AnalyzeColorMood(color_list) ==
    IF color_list = <<>>
    THEN [primary_mood |-> "neutral", confidence |-> Tenths(1)]
    ELSE LET top_colors == Prefix(color_list, 3)
         IN [primary_mood |-> ColorImpactToMood(top_colors),
             confidence |-> Min(NumColorInfluences(top_colors) * Tenths(3),
                                Tenths(8))]

\* --- _analyze_scene_context ----------------------------------------------

\* 'scene_type in detected_scenes'
Detected(scene_type, text) ==
    \E k \in 1..Len(scene_indicators[scene_type]) :
        Contains(scene_indicators[scene_type][k], text)

AnalyzeSceneContext(text) ==
    IF Detected("nature", text)
    THEN [primary_mood |-> "peaceful", confidence |-> Tenths(6)]
    ELSE IF Detected("social", text) /\ Detected("time_day", text)
    THEN [primary_mood |-> "happy", confidence |-> Tenths(5)]
    ELSE IF Detected("time_night", text)
    THEN [primary_mood |-> "mysterious", confidence |-> Tenths(4)]
    ELSE IF Detected("urban", text)
    THEN [primary_mood |-> "energetic", confidence |-> Tenths(3)]
    ELSE [primary_mood |-> "neutral", confidence |-> Tenths(1)]

\* --- _combine_mood_analyses ----------------------------------------------

\* variant with the text and scene weights exchanged
weightsSceneFirst == [text |-> 2, color |-> 3, scene |-> 5]

\* weights in tenths
weights == [text |-> 5, color |-> 3, scene |-> 2]

\* variant that also enters a neutral analysis
AddCandidateAnyMood(mood_candidates, signal, weight) ==
    IF \E k \in 1..Len(mood_candidates) :
          mood_candidates[k].mood = signal.primary_mood
    THEN [k \in 1..Len(mood_candidates) |->
            IF mood_candidates[k].mood = signal.primary_mood
            THEN [mood |-> mood_candidates[k].mood,
                  score |-> mood_candidates[k].score + signal.confidence * weight]
            ELSE mood_candidates[k]]
    ELSE Append(mood_candidates, [mood |-> signal.primary_mood,
                                  score |-> signal.confidence * weight])

\* mood_candidates after one more analysis: a list of (mood, score) in
\* insertion order, scores in units of 1/FusedUnit
AddCandidate(mood_candidates, signal, weight) ==
    IF signal.primary_mood = "neutral" THEN mood_candidates
    ELSE IF \E k \in 1..Len(mood_candidates) :
               mood_candidates[k].mood = signal.primary_mood
    THEN [k \in 1..Len(mood_candidates) |->
            IF mood_candidates[k].mood = signal.primary_mood
            THEN [mood |-> mood_candidates[k].mood,
                  score |-> mood_candidates[k].score + signal.confidence * weight]
            ELSE mood_candidates[k]]
    ELSE Append(mood_candidates, [mood |-> signal.primary_mood,
                                  score |-> signal.confidence * weight])

CandidateScore(candidate) == candidate.score

CombineMoodAnalyses(text_mood, color_mood, scene_mood) ==
    LET mood_candidates ==
            AddCandidate(AddCandidate(AddCandidate(<<>>, text_mood, weights.text),
                                      color_mood, weights.color),
                         scene_mood, weights.scene)
    IN IF mood_candidates # <<>>
       THEN LET primary_mood == FirstMax(mood_candidates,
                    [i \in 1..Len(mood_candidates) |-> CandidateScore(mood_candidates[i])])
            IN [primary_mood |-> primary_mood.mood,
                confidence |-> Min(primary_mood.score, FusedUnit),
                all_candidates |-> mood_candidates]
       ELSE [primary_mood |-> "peaceful", confidence |-> 2 * ConfUnit,
             all_candidates |-> mood_candidates]

\* --- _mood_to_spotify_features -------------------------------------------

Features ==
    {"valence", "energy", "danceability", "acousticness", "instrumentalness",
     "speechiness"}

JitteredFeatures ==
    {"valence", "energy", "danceability", "acousticness", "instrumentalness"}

neutral_features ==
    [valence |-> 5, energy |-> 5, danceability |-> 5, acousticness |-> 5,
     instrumentalness |-> 3, speechiness |-> 1, tempo |-> 120]

\* 'value * confidence + neutral_value * (1 - confidence)'; value in tenths
\* (tempo: BPM), confidence in 1/FusedUnit: the result is in 1/FusedUnit of a
\* tenth (tempo: of one BPM)
Blend(value, neutral_value, confidence) ==
    value * confidence + neutral_value * (FusedUnit - confidence)

\* 'max(lo, min(hi, x))'
Clamp(lo, hi, x) == Max(lo, Min(hi, x))

\* random.uniform(-0.1, 0.1) on a feature and random.uniform(-10, 10) on the
\* tempo: the two ends and points in between
FeatureVariations == {-FusedUnit, 0, FusedUnit}

TempoVariations == {-10 * FusedUnit, -2 * FusedUnit, 0, 3 * FusedUnit, 10 * FusedUnit}

\* variant without the cuts that adds each variation twice
MoodToSpotifyFeaturesUncut(combined_mood, variation, tempo_variation) ==
    LET base == Get(base_features, combined_mood.primary_mood, neutral_features)
        confidence == combined_mood.confidence
    IN [f \in Features \cup {"tempo"} |->
          IF f = "tempo"
          THEN Blend(base.tempo, neutral_features.tempo, confidence)
               + 2 * tempo_variation
          ELSE IF f \in JitteredFeatures
          THEN Blend(base[f], neutral_features[f], confidence) + 2 * variation[f]
          ELSE Blend(base[f], neutral_features[f], confidence)]

MoodToSpotifyFeatures(combined_mood, variation, tempo_variation) ==
    LET base == Get(base_features, combined_mood.primary_mood, neutral_features)
        confidence == combined_mood.confidence
    IN [f \in Features \cup {"tempo"} |->
          IF f = "tempo"
          THEN Clamp(60 * FusedUnit, 200 * FusedUnit,
                     Blend(base.tempo, neutral_features.tempo, confidence)
                     + tempo_variation)
          ELSE IF f \in JitteredFeatures
          THEN Clamp(0, 10 * FusedUnit,
                     Blend(base[f], neutral_features[f], confidence)
                     + variation[f])
          ELSE Blend(base[f], neutral_features[f], confidence)]

\* --- analyze_comprehensive_mood ------------------------------------------

NoSignal == [primary_mood |-> "neutral", confidence |-> 0]

InitMood ==
    /\ mpc = "input"
    /\ caption \in Captions
    /\ colors \in ColorLists
    /\ mood_result = [primary_mood |-> "neutral", mood_confidence |-> 0,
                      text_analysis |-> NoSignal, color_analysis |-> NoSignal,
                      scene_analysis |-> NoSignal]
    /\ audio_features = [f \in Features \cup {"tempo"} |-> 0]

\* analyze_comprehensive_mood, steps 1 to 4: the three analyses and their
\* combination
AnalyzeMoods ==
    /\ mpc = "input"
    /\ LET text == Lower(caption)
           text_mood == AnalyzeTextMood(text)
           color_mood == AnalyzeColorMood(colors)
           scene_mood == AnalyzeSceneContext(text)
           combined_mood == CombineMoodAnalyses(text_mood, color_mood, scene_mood)
       IN mood_result' =
                [primary_mood |-> combined_mood.primary_mood,
                 mood_confidence |-> combined_mood.confidence,
                 text_analysis |-> text_mood,
                 color_analysis |-> color_mood,
                 scene_analysis |-> scene_mood]
    /\ mpc' = "combined"
    /\ UNCHANGED <<notMood, caption, colors, audio_features>>

\* analyze_comprehensive_mood, step 5: the audio features of the combined
\* mood, with the random variations drawn
GenerateAudioFeatures ==
    /\ mpc = "combined"
    /\ \E variation \in [JitteredFeatures -> FeatureVariations],
          tempo_variation \in TempoVariations :
          audio_features' =
              MoodToSpotifyFeatures(
                  [primary_mood |-> mood_result.primary_mood,
                   confidence |-> mood_result.mood_confidence],
                  variation, tempo_variation)
    /\ mpc' = "done"
    /\ UNCHANGED <<notMood, caption, colors, mood_result>>

NextMood ==
    \/ AnalyzeMoods
    \/ GenerateAudioFeatures

\* ---------------------------------------------------------------------
\* _combine_mood_analyses and _mood_to_spotify_features as functions of
\* arbitrary arguments
\* ---------------------------------------------------------------------

\* primary moods of a signal handed to _combine_mood_analyses
SignalMoods == {"neutral", "happy", "peaceful", "nature"}

\* confidences of a signal: 0, 0.1, 0.6 and 1
SignalConfidences == {0, Tenths(1), Tenths(6), ConfUnit}

Signals == [primary_mood : SignalMoods, confidence : SignalConfidences]

\* the three analyses are given, nothing is combined yet
InitSignals ==
    /\ mpc = "signals"
    /\ caption = <<>>
    /\ colors = <<>>
    /\ \E text_mood \in Signals, color_mood \in Signals, scene_mood \in Signals :
          mood_result = [primary_mood |-> "neutral", mood_confidence |-> 0,
                         text_analysis |-> text_mood,
                         color_analysis |-> color_mood,
                         scene_analysis |-> scene_mood]
    /\ audio_features = [f \in Features \cup {"tempo"} |-> 0]

\* one call of _combine_mood_analyses on the given analyses
CombineSignals ==
    /\ mpc = "signals"
    /\ LET combined_mood == CombineMoodAnalyses(mood_result.text_analysis,
                                                mood_result.color_analysis,
                                                mood_result.scene_analysis)
       IN mood_result' = [mood_result EXCEPT
                             !.primary_mood = combined_mood.primary_mood,
                             !.mood_confidence = combined_mood.confidence]
    /\ mpc' = "combined"
    /\ UNCHANGED <<notMood, caption, colors, audio_features>>

\* mood labels handed to _mood_to_spotify_features: the keys of
\* mood_categories, and labels that are not keys
SynthMoods == Range(MoodOrder) \cup {"neutral", "unknown"}

\* confidences 0, 0.1, ..., 1 in units of 1/FusedUnit
SynthConfidences == {k * (FusedUnit \div 10) : k \in 0..10}

\* a combined mood is given, no features yet
InitCombined ==
    /\ mpc = "combined"
    /\ caption = <<>>
    /\ colors = <<>>
    /\ \E m \in SynthMoods, confidence \in SynthConfidences :
          mood_result = [primary_mood |-> m, mood_confidence |-> confidence,
                         text_analysis |-> NoSignal, color_analysis |-> NoSignal,
                         scene_analysis |-> NoSignal]
    /\ audio_features = [f \in Features \cup {"tempo"} |-> 0]

\* ---------------------------------------------------------------------
\* _rank_songs_by_characteristics (backend/app/routers/recommendations.py
\* and backend/main.py). Scores are kept in tenths of a point.
\* ---------------------------------------------------------------------

\* moods handed to the ranking: the keys of mood_preferences and one that
\* is not a key
RankMoods == {"happy", "melancholic", "energetic", "peaceful", "romantic", "nature"}

\* mood_preferences of backend/app/routers/recommendations.py
mood_preferences ==
    [happy |-> [min_popularity |-> 50, prefer_recent |-> TRUE,
                avoid_explicit |-> TRUE, duration_range |-> <<120000, 300000>>],
     melancholic |-> [min_popularity |-> 40, prefer_recent |-> FALSE,
                avoid_explicit |-> FALSE, duration_range |-> <<180000, 360000>>],
     energetic |-> [min_popularity |-> 60, prefer_recent |-> TRUE,
                avoid_explicit |-> FALSE, duration_range |-> <<150000, 300000>>],
     peaceful |-> [min_popularity |-> 45, prefer_recent |-> FALSE,
                avoid_explicit |-> TRUE, duration_range |-> <<180000, 420000>>],
     romantic |-> [min_popularity |-> 50, prefer_recent |-> FALSE,
                avoid_explicit |-> TRUE, duration_range |-> <<200000, 360000>>]]

\* mood_preferences of backend/main.py
main_mood_preferences ==
    [happy |-> [min_popularity |-> 30, prefer_recent |-> TRUE,
                avoid_explicit |-> TRUE, duration_range |-> <<120000, 300000>>],
     melancholic |-> [min_popularity |-> 20, prefer_recent |-> FALSE,
                avoid_explicit |-> FALSE, duration_range |-> <<180000, 360000>>],
     energetic |-> [min_popularity |-> 40, prefer_recent |-> TRUE,
                avoid_explicit |-> FALSE, duration_range |-> <<150000, 300000>>],
     peaceful |-> [min_popularity |-> 15, prefer_recent |-> FALSE,
                avoid_explicit |-> TRUE, duration_range |-> <<180000, 420000>>],
     romantic |-> [min_popularity |-> 25, prefer_recent |-> FALSE,
                avoid_explicit |-> TRUE, duration_range |-> <<200000, 360000>>]]

\* literal_mood_words of backend/main.py
literal_mood_words ==
    <<<<"s", "a", "d">>, <<"h", "a", "p", "p", "y">>, <<"e", "m", "o", "t", "i", "o", "n", "a", "l">>, <<"m", "e", "l", "a", "n", "c", "h", "o", "l", "i", "c">>, <<"d", "e", "p", "r", "e", "s", "s", "e", "d">>, <<"j", "o", "y", "f", "u", "l">>>>

\* generic_terms of backend/main.py
generic_terms ==
    <<<<"b", "a", "c", "k", "g", "r", "o", "u", "n", "d">>, <<"i", "n", "s", "t", "r", "u", "m", "e", "n", "t", "a", "l">>, <<"m", "e", "d", "i", "t", "a", "t", "i", "o", "n">>, <<"r", "o", "y", "a", "l", "t", "y", " ", "f", "r", "e", "e">>, <<"s", "t", "o", "c", "k">>>>

\* the word of the scenario
s_sad == <<"s", "a", "d">>

\* aggregated tracks the ranking is run on: two that differ in the title
\* only, two of low popularity that differ in popularity only, an explicit
\* old short one, and two without duration, one of them with a release date
\* that is not a year
RankPool ==
    <<[id |-> 1, name |-> <<"B", "l", "u", "e", " ", "E", "y", "e", "s">>, artist |-> <<"M", "i", "r", "a", " ", "L", "a", "n", "e">>, popularity |-> 55,
       duration_ms |-> 200000, explicit |-> FALSE, release_date |-> <<"2", "0", "2", "1", "-", "0", "3", "-", "0", "1">>],
      [id |-> 2, name |-> <<"S", "a", "d", " ", "E", "y", "e", "s">>, artist |-> <<"M", "i", "r", "a", " ", "L", "a", "n", "e">>, popularity |-> 55,
       duration_ms |-> 200000, explicit |-> FALSE, release_date |-> <<"2", "0", "2", "1", "-", "0", "3", "-", "0", "1">>],
      [id |-> 3, name |-> <<"L", "o", "w", " ", "T", "i", "d", "e">>, artist |-> <<"H", "a", "r", "b", "o", "r">>, popularity |-> 20,
       duration_ms |-> 200000, explicit |-> FALSE, release_date |-> <<"2", "0", "1", "6", "-", "0", "5", "-", "0", "1">>],
      [id |-> 4, name |-> <<"L", "o", "w", " ", "T", "i", "d", "e">>, artist |-> <<"H", "a", "r", "b", "o", "r">>, popularity |-> 25,
       duration_ms |-> 200000, explicit |-> FALSE, release_date |-> <<"2", "0", "1", "6", "-", "0", "5", "-", "0", "1">>],
      [id |-> 5, name |-> <<"N", "i", "g", "h", "t", " ", "D", "r", "i", "v", "e">>, artist |-> <<"K", "i", "l", "o">>, popularity |-> 80,
       duration_ms |-> 100000, explicit |-> TRUE, release_date |-> <<"2", "0", "1", "0">>],
      [id |-> 6, name |-> <<"U", "n", "t", "i", "t", "l", "e", "d">>, artist |-> <<"K", "i", "l", "o">>, popularity |-> 35,
       duration_ms |-> 0, explicit |-> FALSE, release_date |-> <<>>],
      [id |-> 7, name |-> <<"R", "a", "i", "n">>, artist |-> <<"B", "a", "c", "k", "g", "r", "o", "u", "n", "d", " ", "M", "u", "s", "i", "c">>, popularity |-> 35,
       duration_ms |-> 0, explicit |-> FALSE, release_date |-> <<"n", "/", "a">>]>>

\* longest list of tracks handed to the ranking
NumTracks == 2

\* the lists of 1 to NumTracks different tracks of the pool
TrackLists ==
    {s \in UNION {[1..n -> Range(RankPool)] : n \in 1..NumTracks} :
        \A i, j \in 1..Len(s) : i # j => s[i].id # s[j].id}

Digits == <<"0", "1", "2", "3", "4", "5", "6", "7", "8", "9">>

\* value of a decimal digit
DigitValue(c) == CHOOSE d \in 0..9 : Digits[d + 1] = c

\* 'int(release_date[:4])': the number, or -1 where Python raises ValueError
\* (an empty string or a character that is not a digit)
ParseYear(release_date) ==
    LET text == Prefix(release_date, 4)
        value[i \in 0..Len(text)] ==
            IF i = 0 THEN 0 ELSE 10 * value[i - 1] + DigitValue(text[i])
    IN IF text # <<>> /\ \A i \in 1..Len(text) : text[i] \in Range(Digits)
       THEN value[Len(text)]
       ELSE -1

\* popularity part of the score, backend/app/routers/recommendations.py
PopularityScore(popularity, preferences) ==
    IF popularity >= preferences.min_popularity THEN Min(6 * popularity, 600)
    ELSE IF popularity >= 30 THEN 3 * popularity
    ELSE -200

\* popularity part of the score, backend/main.py
MainPopularityScore(popularity, preferences) ==
    IF popularity >= preferences.min_popularity THEN Min(4 * popularity, 400)
    ELSE 0

DurationScore(duration, preferences) ==
    IF preferences.duration_range[1] <= duration
       /\ duration <= preferences.duration_range[2]
    THEN 200
    ELSE IF duration > 0 THEN 100 ELSE 0

ExplicitPenalty(track, preferences) ==
    IF preferences.avoid_explicit /\ track.explicit THEN -150 ELSE 0

RecentBonus(track, preferences) ==
    IF preferences.prefer_recent /\ track.release_date # <<>>
    THEN LET year == ParseYear(track.release_date)
         IN IF year >= 2020 THEN 150 ELSE IF year >= 2015 THEN 80 ELSE 0
    ELSE 0

\* 'any(word in title_lower for word in literal_mood_words)'
HasLiteralMoodWord(track) ==
    \E k \in 1..Len(literal_mood_words) :
        Contains(literal_mood_words[k], Lower(track.name))

\* 'not any(term in artist_name for term in generic_terms)'
IsRealArtist(track) ==
    ~ \E k \in 1..Len(generic_terms) :
          Contains(generic_terms[k], Lower(track.artist))

\* the score of one track in backend/app/routers/recommendations.py
TrackScore(track, m) ==
    LET preferences == Get(mood_preferences, m, mood_preferences.happy)
    IN PopularityScore(track.popularity, preferences)
       + DurationScore(track.duration_ms, preferences)
       + ExplicitPenalty(track, preferences)
       + RecentBonus(track, preferences)

\* the score of one track in backend/main.py
MainTrackScore(track, m) ==
    LET preferences == Get(main_mood_preferences, m, main_mood_preferences.happy)
    IN MainPopularityScore(track.popularity, preferences)
       + DurationScore(track.duration_ms, preferences)
       + ExplicitPenalty(track, preferences)
       + RecentBonus(track, preferences)
       + (IF HasLiteralMoodWord(track) THEN -250 ELSE 0)
       + (IF IsRealArtist(track) THEN 100 ELSE 0)

\* 'scored_tracks.sort(key=lambda x: x[0], reverse=True)' and the copy with
\* ranking_score; scores[i] is the score of input[i]
RankedByScore(input, scores) ==
    LET scored_tracks == [i \in 1..Len(input) |->
                             [track |-> input[i], ranking_score |-> scores[i]]]
    IN SortDesc(scored_tracks, scores)

\* _rank_songs_by_characteristics of backend/app/routers/recommendations.py
RankSongsByCharacteristics(input, m) ==
    RankedByScore(input, [i \in 1..Len(input) |-> TrackScore(input[i], m)])

\* _rank_songs_by_characteristics of backend/main.py
MainRankSongsByCharacteristics(input, m) ==
    RankedByScore(input, [i \in 1..Len(input) |-> MainTrackScore(input[i], m)])

InitRank ==
    /\ kpc = "input"
    /\ rank_mood \in RankMoods
    /\ rank_tracks \in TrackLists
    /\ ranked_by = "none"
    /\ ranked_tracks = <<>>

\* analyze_and_recommend of the routers ranks the aggregated tracks
RankRouters ==
    /\ kpc = "input"
    /\ ranked_tracks' = RankSongsByCharacteristics(rank_tracks, rank_mood)
    /\ ranked_by' = "routers"
    /\ kpc' = "ranked"
    /\ UNCHANGED <<notRank, rank_mood, rank_tracks>>

\* analyze_and_recommend of backend/main.py ranks the aggregated tracks
RankMain ==
    /\ kpc = "input"
    /\ ranked_tracks' = MainRankSongsByCharacteristics(rank_tracks, rank_mood)
    /\ ranked_by' = "main"
    /\ kpc' = "ranked"
    /\ UNCHANGED <<notRank, rank_mood, rank_tracks>>

NextRank ==
    \/ RankRouters
    \/ RankMain

\* QUIZ_SONGS[k]["audio_features"], the five features the preferences use,
\* in millionths
QUIZ_AUDIO_FEATURES == <<
    [danceability |-> 579000, energy |-> 513000, valence |-> 321000, acousticness |-> 257000, instrumentalness |-> 1],
    [danceability |-> 552000, energy |-> 702000, valence |-> 564000, acousticness |-> 117000, instrumentalness |-> 96],
    [danceability |-> 685000, energy |-> 549000, valence |-> 359000, acousticness |-> 361000, instrumentalness |-> 3],
    [danceability |-> 825000, energy |-> 652000, valence |-> 931000, acousticness |-> 581000, instrumentalness |-> 2],
    [danceability |-> 495000, energy |-> 618000, valence |-> 579000, acousticness |-> 213000, instrumentalness |-> 1000],
    [danceability |-> 378000, energy |-> 541000, valence |-> 446000, acousticness |-> 309000, instrumentalness |-> 274000],
    [danceability |-> 563000, energy |-> 736000, valence |-> 899000, acousticness |-> 1310, instrumentalness |-> 14],
    [danceability |-> 754000, energy |-> 449000, valence |-> 357000, acousticness |-> 6850, instrumentalness |-> 1],
    [danceability |-> 904000, energy |-> 621000, valence |-> 421000, acousticness |-> 548, instrumentalness |-> 24],
    [danceability |-> 876000, energy |-> 555000, valence |-> 687000, acousticness |-> 132000, instrumentalness |-> 3],
    [danceability |-> 473000, energy |-> 793000, valence |-> 394000, acousticness |-> 234, instrumentalness |-> 1],
    [danceability |-> 511000, energy |-> 789000, valence |-> 749000, acousticness |-> 69, instrumentalness |-> 893000],
    [danceability |-> 684000, energy |-> 449000, valence |-> 425000, acousticness |-> 102000, instrumentalness |-> 63],
    [danceability |-> 728000, energy |-> 712000, valence |-> 819000, acousticness |-> 186000, instrumentalness |-> 105000],
    [danceability |-> 738000, energy |-> 345000, valence |-> 467000, acousticness |-> 423000, instrumentalness |-> 17],
    [danceability |-> 514000, energy |-> 730000, valence |-> 334000, acousticness |-> 1460, instrumentalness |-> 2],
    [danceability |-> 648000, energy |-> 693000, valence |-> 959000, acousticness |-> 85100, instrumentalness |-> 0],
    [danceability |-> 567000, energy |-> 506000, valence |-> 284000, acousticness |-> 372000, instrumentalness |-> 0],
    [danceability |-> 593000, energy |-> 867000, valence |-> 334000, acousticness |-> 81, instrumentalness |-> 2],
    [danceability |-> 703000, energy |-> 622000, valence |-> 686000, acousticness |-> 11000, instrumentalness |-> 105]>>

\* ---------------------------------------------------------------------
\* calculate_preferences (backend/app/routers/quiz.py)
\* ---------------------------------------------------------------------

\* a song_id that no song of QUIZ_SONGS has
AbsentSongId == 0

\* the songs of QUIZ_SONGS that get rated: the first QuizPool ones
QuizPool == 5

\* longest list of ratings
MaxRatings == 3

\* one entry of quiz_results["song_ratings"]
SongRatings == [song_id : {AbsentSongId} \cup 1..QuizPool, liked : BOOLEAN]

RatingLists == UNION {[1..n -> SongRatings] : n \in 0..MaxRatings}

\* variant in which an unknown id resolves to the first song
SongDataOrFirst(song_id) ==
    IF \E k \in 1..Len(QUIZ_SONGS) : QUIZ_SONGS[k].id = song_id
    THEN CHOOSE k \in 1..Len(QUIZ_SONGS) : QUIZ_SONGS[k].id = song_id
    ELSE 1

\* 'next((s for s in QUIZ_SONGS if s["id"] == song_id), None)', as the
\* position of the song in QUIZ_SONGS
SongData(song_id) ==
    IF \E k \in 1..Len(QUIZ_SONGS) : QUIZ_SONGS[k].id = song_id
    THEN CHOOSE k \in 1..Len(QUIZ_SONGS) :
             /\ QUIZ_SONGS[k].id = song_id
             /\ \A j \in 1..(k - 1) : QUIZ_SONGS[j].id # song_id
    ELSE None

\* liked_songs (user_liked = TRUE) or disliked_songs (FALSE) after the loop
\* over the ratings, in the order of the ratings
SongsRated(ratings, user_liked) ==
    LET found == Filter(ratings,
                    [i \in 1..Len(ratings) |->
                        /\ SongData(ratings[i].song_id) # None
                        /\ ratings[i].liked = user_liked])
    IN [i \in 1..Len(found) |-> SongData(found[i].song_id)]

\* how many entries of the list of songs carry the genre
GenreCount(songs, genre) ==
    Cardinality({i \in 1..Len(songs) : genre \in Range(QUIZ_SONGS[songs[i]].genres)})

\* genre_scores, in halves: +1 for each liked song of the genre, -0.5 for
\* each disliked one
GenreScores(liked_songs, disliked_songs) ==
    LET rated == Range(liked_songs) \cup Range(disliked_songs)
        genres == UNION {Range(QUIZ_SONGS[k].genres) : k \in rated}
    IN [genre \in genres |->
           2 * GenreCount(liked_songs, genre) - GenreCount(disliked_songs, genre)]

\* variant that divides by one more than the largest score
MaxScorePlusOne(genre_scores) ==
    IF DOMAIN genre_scores = {} THEN 2
    ELSE LET top == CHOOSE genre \in DOMAIN genre_scores :
                \A other \in DOMAIN genre_scores :
                    genre_scores[other] <= genre_scores[genre]
         IN genre_scores[top] + 2

\* 'max(genre_scores.values()) if genre_scores else 1.0', in halves
MaxScore(genre_scores) ==
    IF DOMAIN genre_scores = {} THEN 2
    ELSE LET top == CHOOSE genre \in DOMAIN genre_scores :
                \A other \in DOMAIN genre_scores :
                    genre_scores[other] <= genre_scores[genre]
         IN genre_scores[top]

\* 'float(max(0, score / max_score))' as the fraction num/den; a quotient
\* below zero, or zero, gives 0
GenrePreference(score, max_score) ==
    IF score = 0 \/ (score < 0) # (max_score < 0)
    THEN [num |-> 0, den |-> 1]
    ELSE [num |-> score, den |-> max_score]

GenrePreferences(genre_scores) ==
    [genre \in DOMAIN genre_scores |->
        GenrePreference(genre_scores[genre], MaxScore(genre_scores))]

\* 'score / max_score' raises ZeroDivisionError
PreferencesRaise(liked_songs, disliked_songs) ==
    LET genre_scores == GenreScores(liked_songs, disliked_songs)
    IN DOMAIN genre_scores # {} /\ MaxScore(genre_scores) = 0

audio_features_rated ==
    {"danceability", "energy", "valence", "acousticness", "instrumentalness"}

\* sum of the feature over a list of songs, in millionths
RECURSIVE FeatureSum(_, _)
FeatureSum(songs, feature) ==
    IF songs = <<>> THEN 0
    ELSE QUIZ_AUDIO_FEATURES[Head(songs)][feature] + FeatureSum(Tail(songs), feature)

\* feature_preferences[feature] as the fraction num/den of millionths:
\* 'liked_avg + 0.1 * (liked_avg - disliked_avg)', or liked_avg, cut to
\* [0, 1]; 0.5 without liked songs
FeaturePreference(liked_songs, disliked_songs, feature) ==
    LET n == Len(liked_songs)
        k == Len(disliked_songs)
        liked_sum == FeatureSum(liked_songs, feature)
        disliked_sum == FeatureSum(disliked_songs, feature)
        num == IF k > 0 THEN 11 * liked_sum * k - disliked_sum * n ELSE liked_sum
        den == IF k > 0 THEN 10 * n * k ELSE n
    IN IF n = 0 THEN [num |-> 500000, den |-> 1]
       ELSE IF num < 0 THEN [num |-> 0, den |-> 1]
       ELSE IF num > 1000000 * den THEN [num |-> 1000000, den |-> 1]
       ELSE [num |-> num, den |-> den]

\* the body the client gets; user_id and created_at, which come from the
\* clock, are left out
QuizResponse(status, success, genre_preferences, feature_preferences, liked_artists, disliked_artists, songs_liked, songs_disliked) ==
    [status |-> status, success |-> success,
     genre_preferences |-> genre_preferences,
     audio_feature_preferences |-> feature_preferences,
     liked_artists |-> liked_artists,
     disliked_artists |-> disliked_artists,
     total_songs_rated |-> songs_liked + songs_disliked,
     songs_liked |-> songs_liked,
     songs_disliked |-> songs_disliked]

\* 'raise HTTPException(status_code=500, ...)'
QuizError == QuizResponse(500, FALSE, <<>>, <<>>, {}, {}, 0, 0)

NoQuizResponse == QuizResponse(0, FALSE, <<>>, <<>>, {}, {}, 0, 0)

\* calculate_preferences on quiz_results["song_ratings"]
CalculatePreferences(ratings) ==
    LET liked_songs == SongsRated(ratings, TRUE)
        disliked_songs == SongsRated(ratings, FALSE)
    IN IF PreferencesRaise(liked_songs, disliked_songs) THEN QuizError
       ELSE QuizResponse(200, TRUE,
                GenrePreferences(GenreScores(liked_songs, disliked_songs)),
                [feature \in audio_features_rated |->
                    FeaturePreference(liked_songs, disliked_songs, feature)],
                {QUIZ_SONGS[liked_songs[i]].artist : i \in 1..Len(liked_songs)},
                {QUIZ_SONGS[disliked_songs[i]].artist : i \in 1..Len(disliked_songs)},
                Len(liked_songs), Len(disliked_songs))

InitQuiz ==
    /\ qpc = "input"
    /\ song_ratings \in RatingLists
    /\ quiz_response = NoQuizResponse

\* the request is answered with the profile
PreferencesReturned ==
    /\ qpc = "input"
    /\ ~ PreferencesRaise(SongsRated(song_ratings, TRUE), SongsRated(song_ratings, FALSE))
    /\ quiz_response' = CalculatePreferences(song_ratings)
    /\ qpc' = "done"
    /\ UNCHANGED <<notQuiz, song_ratings>>

\* the normalization divides by zero and the request is answered with 500
PreferencesFailed ==
    /\ qpc = "input"
    /\ PreferencesRaise(SongsRated(song_ratings, TRUE), SongsRated(song_ratings, FALSE))
    /\ quiz_response' = CalculatePreferences(song_ratings)
    /\ qpc' = "done"
    /\ UNCHANGED <<notQuiz, song_ratings>>

NextQuiz ==
    \/ PreferencesReturned
    \/ PreferencesFailed

\* ---------------------------------------------------------------------
\* _get_fallback_songs_for_analysis and _get_fallback_songs_by_mood
\* (backend/app/routers/recommendations.py): the songs of
\* /analyze-and-recommend when no token is available
\* ---------------------------------------------------------------------

\* mood_song_count of _get_fallback_songs_by_mood
analysis_mood_song_count ==
    [happy |-> 6, energetic |-> 6, peaceful |-> 4, melancholic |-> 4,
     romantic |-> 4, nature |-> 4]

\* 'mood_song_count.get(mood, 5)'
DefaultSongCount == 5

\* the size the list is filled up to
FillTarget == 10

\* moods of the analysis: one with an entry in mood_song_count and one
\* without
AnalysisMoods == {"peaceful", "neutral"}

\* music_profile["recommended_genres"] of the music profile: none, and
\* lists with 9, 11 and 6 matching songs in QUIZ_SONGS
RecommendedGenres ==
    {<<>>,
     <<<<"p", "o", "p">>, <<"r", "e", "g", "g", "a", "e">>, <<"u", "p", "b", "e", "a", "t">>>>,
     <<<<"h", "i", "p", "-", "h", "o", "p">>, <<"e", "l", "e", "c", "t", "r", "o", "n", "i", "c">>, <<"p", "o", "p">>>>,
     <<<<"r", "o", "c", "k">>, <<"e", "l", "e", "c", "t", "r", "o", "n", "i", "c">>>>}

\* separator.join(parts)
RECURSIVE Join(_, _)
Join(separator, parts) ==
    IF parts = <<>> THEN <<>>
    ELSE IF Len(parts) = 1 THEN Head(parts)
    ELSE Head(parts) \o separator \o Join(separator, Tail(parts))

\* 'any(genre.lower() in " ".join(song_genres) for genre in
\* recommended_genres)' with song_genres the lower-cased genres of the song
SongMatchesGenres(song, recommended_genres) ==
    LET song_genres == [i \in 1..Len(song.genres) |-> Lower(song.genres[i])]
    IN \E k \in 1..Len(recommended_genres) :
          Contains(Lower(recommended_genres[k]), Join(<<" ">>, song_genres))

\* the positions in QUIZ_SONGS of the songs that match, in catalog order
MatchedSongs(recommended_genres) ==
    LET matched == Filter(QUIZ_SONGS,
                       [i \in 1..Len(QUIZ_SONGS) |->
                           SongMatchesGenres(QUIZ_SONGS[i], recommended_genres)])
    IN [i \in 1..Len(matched) |-> matched[i].id]

\* '[s for s in QUIZ_SONGS if s["id"] not in [ms["id"] for ms in matched_songs]]'
RemainingSongs(matched_ids) ==
    LET remaining == Filter(QUIZ_SONGS,
                         [i \in 1..Len(QUIZ_SONGS) |->
                             QUIZ_SONGS[i].id \notin Range(matched_ids)])
    IN [i \in 1..Len(remaining) |-> remaining[i].id]

\* entries of the returned list
MatchedEntry(song_id, recommended_genres) ==
    [id |-> song_id,
     query_used |-> s_genre_colon \o Join(<<",", " ">>, recommended_genres)]

AdditionalEntry(song_id) == [id |-> song_id, query_used |-> s_fallback]

\* entries of _get_fallback_songs_by_mood carry no query_used
MoodEntry(song_id) == [id |-> song_id, query_used |-> <<>>]

\* 'not music_profile or not music_profile.get("recommended_genres")'
NoRecommendedGenres(profile) == profile.recommended_genres = <<>>

InitAnalysisFallback ==
    /\ apc = "no_token"
    /\ analysis_mood \in AnalysisMoods
    /\ music_profile \in [recommended_genres : RecommendedGenres]
    /\ fallback_songs = <<>>

\* _get_fallback_songs_for_analysis with recommended genres: the matching
\* songs, and a random sample of the others when fewer than 10 match
FallbackSongsForAnalysis ==
    /\ apc = "no_token"
    /\ ~NoRecommendedGenres(music_profile)
    /\ LET recommended_genres == music_profile.recommended_genres
           matched_ids == MatchedSongs(recommended_genres)
           matched_songs == [i \in 1..Len(matched_ids) |->
                                MatchedEntry(matched_ids[i], recommended_genres)]
           remaining_songs == RemainingSongs(matched_ids)
       IN IF Len(matched_songs) < FillTarget
          THEN \E additional \in
                    Samples(1, Len(remaining_songs),
                            Min(FillTarget - Len(matched_songs), Len(remaining_songs))) :
                  fallback_songs' = matched_songs \o
                      [i \in 1..Len(additional) |->
                          AdditionalEntry(remaining_songs[additional[i]])]
          ELSE fallback_songs' = matched_songs
    /\ apc' = "done"
    /\ UNCHANGED <<notAnalysisFallback, analysis_mood, music_profile>>

\* _get_fallback_songs_by_mood, called when the profile recommends no genre
FallbackSongsByMood ==
    /\ apc = "no_token"
    /\ NoRecommendedGenres(music_profile)
    /\ \E selected_songs \in
            Samples(1, Len(QUIZ_SONGS),
                    Min(Get(analysis_mood_song_count, analysis_mood, DefaultSongCount),
                        Len(QUIZ_SONGS))) :
          fallback_songs' = [i \in 1..Len(selected_songs) |->
                                MoodEntry(QUIZ_SONGS[selected_songs[i]].id)]
    /\ apc' = "done"
    /\ UNCHANGED <<notAnalysisFallback, analysis_mood, music_profile>>

NextAnalysisFallback ==
    \/ FallbackSongsForAnalysis
    \/ FallbackSongsByMood

\* ---------------------------------------------------------------------
\* HybridImageService.load_model (backend/app/services/hybrid_ai_service.py)
\* ---------------------------------------------------------------------

\* number of coroutines that call load_model on the one service object
NumLoadCallers == 3
LoadCallers == 1..NumLoadCallers

\* all coroutines run on one event loop: a step of a coroutine is the code
\* between two suspension points. 'async with self._load_lock' does not
\* suspend when the lock is free, and the block holds no await, so the
\* lock is taken and released inside the first step
InitHybrid ==
    /\ hpc = [c \in LoadCallers |-> "idle"]
    /\ is_loaded = FALSE
    /\ load_lock = None
    /\ executor_jobs = <<>>
    /\ model_loads = 0

\* load_model up to its first suspension: 'if self.is_loaded: return'
HybridAlreadyLoaded(c) ==
    /\ hpc[c] = "idle"
    /\ is_loaded
    /\ hpc' = [hpc EXCEPT ![c] = "returned"]
    /\ UNCHANGED <<notHybrid, is_loaded, load_lock, executor_jobs, model_loads>>

\* load_model up to its first suspension when the model is not loaded: the
\* lock block (double check, log, start_time) is passed, then
\* run_in_executor hands _load_model_sync to the executor and the coroutine
\* waits for it
HybridSubmitLoad(c) ==
    /\ hpc[c] = "idle"
    /\ ~is_loaded
    /\ load_lock = None
    /\ executor_jobs' = Append(executor_jobs, c)
    /\ hpc' = [hpc EXCEPT ![c] = "awaiting_load"]
    /\ UNCHANGED <<notHybrid, is_loaded, load_lock, model_loads>>

\* the single worker thread of the executor runs the oldest
\* _load_model_sync job to its end
LoadModelSyncOk ==
    /\ executor_jobs # <<>>
    /\ model_loads' = model_loads + 1
    /\ hpc' = [hpc EXCEPT ![Head(executor_jobs)] = "load_done"]
    /\ executor_jobs' = Tail(executor_jobs)
    /\ UNCHANGED <<notHybrid, is_loaded, load_lock>>

\* the job raises (from_pretrained fails)
LoadModelSyncRaises ==
    /\ executor_jobs # <<>>
    /\ hpc' = [hpc EXCEPT ![Head(executor_jobs)] = "load_failed"]
    /\ executor_jobs' = Tail(executor_jobs)
    /\ UNCHANGED <<notHybrid, is_loaded, load_lock, model_loads>>

\* the coroutine resumes after the job: 'self.is_loaded = True'
HybridLoaded(c) ==
    /\ hpc[c] = "load_done"
    /\ is_loaded' = TRUE
    /\ hpc' = [hpc EXCEPT ![c] = "returned"]
    /\ UNCHANGED <<notHybrid, load_lock, executor_jobs, model_loads>>

\* the coroutine resumes with the exception: 'self.is_loaded = False; raise'
HybridLoadFailed(c) ==
    /\ hpc[c] = "load_failed"
    /\ is_loaded' = FALSE
    /\ hpc' = [hpc EXCEPT ![c] = "raised"]
    /\ UNCHANGED <<notHybrid, load_lock, executor_jobs, model_loads>>

NextHybrid ==
    \/ \E c \in LoadCallers : HybridAlreadyLoaded(c)
    \/ \E c \in LoadCallers : HybridSubmitLoad(c)
    \/ LoadModelSyncOk
    \/ LoadModelSyncRaises
    \/ \E c \in LoadCallers : HybridLoaded(c)
    \/ \E c \in LoadCallers : HybridLoadFailed(c)

\* ---------------------------------------------------------------------
\* BLIP2Service.load_model, _warm_up_model and generate_caption
\* (app/services/ai_service.py)
\* ---------------------------------------------------------------------

\* number of coroutines that call into the one service object
NumCaptionTasks == 2
CaptionTasks == 1..NumCaptionTasks

\* the public coroutine a task calls
BlipCalls == {"load_model", "generate_caption"}

\* position of a task: the call it made and where it stands in it
At(call, at) == [call |-> call, at |-> at]

InitBlip ==
    /\ bpc = [t \in CaptionTasks |-> At("none", "idle")]
    /\ is_model_loaded = FALSE
    /\ model_loading_lock = None
    /\ lock_waits = <<>>

\* asyncio.Lock.release(): the lock goes to the longest waiting task, if any
Released(waits) == IF waits = <<>> THEN None ELSE Head(waits)

\* where a task stands when load_model has returned to it: load_model was
\* the call itself, or generate_caption goes on to the inference
AfterLoad(call) ==
    IF call = "load_model" THEN At(call, "returned") ELSE At(call, "inference")

\* a task calls load_model, or generate_caption with a real image, while
\* the model is marked loaded
BlipCallLoaded(t) ==
    /\ bpc[t].at = "idle"
    /\ is_model_loaded
    /\ \E call \in BlipCalls : bpc' = [bpc EXCEPT ![t] = AfterLoad(call)]
    /\ UNCHANGED <<notBlip, is_model_loaded, model_loading_lock, lock_waits>>

\* the model is not marked loaded and the lock is free: the task takes the
\* lock ('async with self.model_loading_lock'), the double check fails, and
\* it waits for _load_model_sync in the executor
BlipCallTakesLock(t) ==
    /\ bpc[t].at = "idle"
    /\ ~is_model_loaded
    /\ model_loading_lock = None
    /\ model_loading_lock' = t
    /\ \E call \in BlipCalls : bpc' = [bpc EXCEPT ![t] = At(call, "load_sync")]
    /\ UNCHANGED <<notBlip, is_model_loaded, lock_waits>>

\* the model is not marked loaded and the lock is held: the task queues up
\* on the lock
BlipCallWaits(t) ==
    /\ bpc[t].at = "idle"
    /\ ~is_model_loaded
    /\ model_loading_lock # None
    /\ lock_waits' = Append(lock_waits, t)
    /\ \E call \in BlipCalls : bpc' = [bpc EXCEPT ![t] = At(call, "wait_lock")]
    /\ UNCHANGED <<notBlip, is_model_loaded, model_loading_lock>>

\* a waiting task got the lock: 'if self.is_model_loaded: return' leaves
\* the block and releases the lock, otherwise the task loads
BlipLockGranted(t) ==
    /\ bpc[t].at = "wait_lock"
    /\ model_loading_lock = t
    /\ lock_waits # <<>> /\ Head(lock_waits) = t
    /\ IF is_model_loaded
       THEN /\ bpc' = [bpc EXCEPT ![t] = AfterLoad(bpc[t].call)]
            /\ model_loading_lock' = Released(Tail(lock_waits))
       ELSE /\ bpc' = [bpc EXCEPT ![t] = At(bpc[t].call, "load_sync")]
            /\ model_loading_lock' = t
    /\ lock_waits' = Tail(lock_waits)
    /\ UNCHANGED <<notBlip, is_model_loaded>>

\* _load_model_sync has returned: the task goes on to _warm_up_model, still
\* inside the lock block and before 'self.is_model_loaded = True'
BlipLoadSyncOk(t) ==
    /\ bpc[t].at = "load_sync"
    /\ bpc' = [bpc EXCEPT ![t] = At(bpc[t].call, "warm_up")]
    /\ UNCHANGED <<notBlip, is_model_loaded, model_loading_lock, lock_waits>>

\* _load_model_sync has raised: 'raise RuntimeError(...)' leaves the lock
\* block; in generate_caption the call of load_model is outside the try
BlipLoadSyncRaises(t) ==
    /\ bpc[t].at = "load_sync"
    /\ bpc' = [bpc EXCEPT ![t] = At(bpc[t].call, "raised")]
    /\ model_loading_lock' = Released(lock_waits)
    /\ UNCHANGED <<notBlip, is_model_loaded, lock_waits>>

\* _warm_up_model calls generate_caption(dummy_bytes, warm_up=True), which
\* finds 'not self.is_model_loaded' and awaits load_model, which finds the
\* same and enters 'async with self.model_loading_lock': the lock is held
\* (by this very task), so the task queues up on it
BlipWarmUpCallsGenerateCaption(t) ==
    /\ bpc[t].at = "warm_up"
    /\ ~is_model_loaded
    /\ model_loading_lock # None
    /\ lock_waits' = Append(lock_waits, t)
    /\ bpc' = [bpc EXCEPT ![t] = At(bpc[t].call, "warm_up_wait_lock")]
    /\ UNCHANGED <<notBlip, is_model_loaded, model_loading_lock>>

\* building the dummy image raises inside the try of _warm_up_model: a
\* warning is logged, then 'self.is_model_loaded = True' and the lock block
\* is left
BlipWarmUpSkipped(t) ==
    /\ bpc[t].at = "warm_up"
    /\ is_model_loaded' = TRUE
    /\ bpc' = [bpc EXCEPT ![t] = AfterLoad(bpc[t].call)]
    /\ model_loading_lock' = Released(lock_waits)
    /\ UNCHANGED <<notBlip, lock_waits>>

\* _generate_caption_sync returns or raises in the executor:
\* generate_caption returns the caption or the fallback caption
BlipInference(t) ==
    /\ bpc[t].at = "inference"
    /\ \E caption_kind \in {"generated", "fallback"} :
          bpc' = [bpc EXCEPT ![t] = At(bpc[t].call, "returned")]
    /\ UNCHANGED <<notBlip, is_model_loaded, model_loading_lock, lock_waits>>

NextBlip ==
    \/ \E t \in CaptionTasks : BlipCallLoaded(t)
    \/ \E t \in CaptionTasks : BlipCallTakesLock(t)
    \/ \E t \in CaptionTasks : BlipCallWaits(t)
    \/ \E t \in CaptionTasks : BlipLockGranted(t)
    \/ \E t \in CaptionTasks : BlipLoadSyncOk(t)
    \/ \E t \in CaptionTasks : BlipLoadSyncRaises(t)
    \/ \E t \in CaptionTasks : BlipWarmUpCallsGenerateCaption(t)
    \/ \E t \in CaptionTasks : BlipWarmUpSkipped(t)
    \/ \E t \in CaptionTasks : BlipInference(t)

\* ---------------------------------------------------------------------
\* the while loop of _diversified_track_selection, one iteration per step
\* ---------------------------------------------------------------------

\* number of searches whose results are handed to the selection
NumSearches == 2

\* iterations after which the model stops following the loop
MaxIterations == 40

\* origin tags of the searches
SelectQueries == <<s_pop, s_rock, s_electronic>>

\* all_tracks of a request in which the searches in 'ok' returned tracks
RECURSIVE TracksOfSearches(_, _, _)
TracksOfSearches(k, ok, cat) ==
    IF k = 0 THEN <<>>
    ELSE TracksOfSearches(k - 1, ok, cat)
         \o (IF k \in ok
             THEN QueryTracks(SearchItems(k, cat), SelectQueries[((k - 1) % 3) + 1])
             ELSE <<>>)

SelectInputs ==
    {TracksOfSearches(NumSearches, ok, [shift |-> shift, artists |-> artists]) :
        ok \in SUBSET (1..NumSearches), shift \in 0..MaxShift,
        artists \in 1..MaxArtists}

InitSelect ==
    /\ spc = "start"
    /\ sel_input \in SelectInputs
    /\ sel_groups = <<>>
    /\ sel_final = <<>>
    /\ sel_index = 0

\* 'if not all_tracks: return []'
SelectNothing ==
    /\ spc = "start"
    /\ sel_input = <<>>
    /\ spc' = "returned"
    /\ UNCHANGED <<notSelect, sel_input, sel_groups, sel_final, sel_index>>

\* duplicate removal and grouping by search type, up to the while loop
SelectPrepare ==
    /\ spc = "start"
    /\ sel_input # <<>>
    /\ sel_groups' = SearchTypeGroups(UniqueTracks(sel_input))
    /\ spc' = "loop"
    /\ UNCHANGED <<notSelect, sel_input, sel_final, sel_index>>

\* 'len(final_recommendations) < 8 and any(search_type_groups.values())'
LoopCondition ==
    /\ Len(sel_final) < TargetSize
    /\ \E g \in 1..Len(sel_groups) : sel_groups[g] # <<>>

\* 'search_types[search_index % len(search_types)]'
CurrentGroup == (sel_index % Len(sel_groups)) + 1

\* variant of the loop body that leaves a group without suitable track as
\* it is
GroupKept(groups, g) == groups

\* 'search_type_groups[current_search_type] = []  # Mark as exhausted'
GroupExhausted(groups, g) == [groups EXCEPT ![g] = <<>>]

\* an iteration that finds a track of an artist below the cap
LoopAddsTrack ==
    /\ spc = "loop" /\ LoopCondition /\ sel_index < MaxIterations
    /\ sel_groups[CurrentGroup] # <<>>
    /\ LET j == FirstAllowed(sel_final, sel_groups[CurrentGroup])
       IN /\ j # 0
          /\ sel_final' = Append(sel_final, sel_groups[CurrentGroup][j])
          /\ sel_groups' = [sel_groups EXCEPT
                               ![CurrentGroup] = RemoveAt(sel_groups[CurrentGroup], j)]
    /\ sel_index' = sel_index + 1
    /\ UNCHANGED <<notSelect, spc, sel_input>>

\* an iteration on a group none of whose tracks is below the cap
LoopExhaustsGroup ==
    /\ spc = "loop" /\ LoopCondition /\ sel_index < MaxIterations
    /\ sel_groups[CurrentGroup] # <<>>
    /\ FirstAllowed(sel_final, sel_groups[CurrentGroup]) = 0
    /\ sel_groups' = GroupExhausted(sel_groups, CurrentGroup)
    /\ sel_index' = sel_index + 1
    /\ UNCHANGED <<notSelect, spc, sel_input, sel_final>>

\* an iteration on an empty group
LoopSkipsGroup ==
    /\ spc = "loop" /\ LoopCondition /\ sel_index < MaxIterations
    /\ sel_groups[CurrentGroup] = <<>>
    /\ sel_index' = sel_index + 1
    /\ UNCHANGED <<notSelect, spc, sel_input, sel_groups, sel_final>>

\* the loop is left: sort by popularity, 'return final_recommendations[:8]'
SelectReturn ==
    /\ spc = "loop" /\ ~LoopCondition
    /\ sel_final' =
          Prefix(SortDesc(sel_final,
                     [i \in 1..Len(sel_final) |-> PopularityKey(sel_final[i])]),
                 TargetSize)
    /\ spc' = "returned"
    /\ UNCHANGED <<notSelect, sel_input, sel_groups, sel_index>>

NextSelect ==
    \/ SelectNothing
    \/ SelectPrepare
    \/ LoopAddsTrack
    \/ LoopExhaustsGroup
    \/ LoopSkipsGroup
    \/ SelectReturn

\* ---------------------------------------------------------------------
\* _rgb_to_color_name on arbitrary triples
\* ---------------------------------------------------------------------

\* component values on both sides of every threshold of the classification
\* (50, 100, 150, 200), with the ends of the range
RgbLevels == {0, 49, 50, 99, 100, 149, 150, 151, 200, 201, 255}

InitColor ==
    /\ cpc = "input"
    /\ rgb_triple \in RgbLevels \X RgbLevels \X RgbLevels
    /\ color_bucket = "none"

ClassifyColor ==
    /\ cpc = "input"
    /\ color_bucket' = RgbToColorName(rgb_triple)
    /\ cpc' = "classified"
    /\ UNCHANGED <<notColor, rgb_triple>>

\* ---------------------------------------------------------------------
\* Specifications: one per component, the other components stay idle
\* ---------------------------------------------------------------------

IdleToken ==
    /\ now = 0
    /\ credentials = FALSE
    /\ spotify_access_token = None
    /\ token_expires_at = 0
    /\ tpc = [p \in Callers |-> "idle"]
    /\ current_time = [p \in Callers |-> 0]
    /\ refreshed = [p \in Callers |-> FALSE]
    /\ ret = [p \in Callers |-> None]
    /\ issued = <<>>
    /\ spotify_status = "not_available"

IdleRec ==
    /\ rpc = "idle"
    /\ mood = "neutral"
    /\ user_profile = [empty |-> TRUE, genre_preferences |-> <<>>]
    /\ auth = "pending"
    /\ catalog = [shift |-> 0, artists |-> 1]
    /\ search_queries = <<>>
    /\ strategy = <<>>
    /\ outcomes = <<>>
    /\ all_tracks = <<>>
    /\ response = Response(0, FALSE, <<>>, <<>>, 0, FALSE)

IdleMood ==
    /\ mpc = "idle"
    /\ caption = <<>>
    /\ colors = <<>>
    /\ mood_result = [primary_mood |-> "neutral", mood_confidence |-> 0,
                      text_analysis |-> NoSignal, color_analysis |-> NoSignal,
                      scene_analysis |-> NoSignal]
    /\ audio_features = [f \in Features \cup {"tempo"} |-> 0]

IdleRank ==
    /\ kpc = "idle"
    /\ rank_mood = "neutral"
    /\ rank_tracks = <<>>
    /\ ranked_by = "none"
    /\ ranked_tracks = <<>>

IdleQuiz ==
    /\ qpc = "idle"
    /\ song_ratings = <<>>
    /\ quiz_response = NoQuizResponse

IdleAnalysisFallback ==
    /\ apc = "idle"
    /\ analysis_mood = "neutral"
    /\ music_profile = [recommended_genres |-> <<>>]
    /\ fallback_songs = <<>>

IdleHybrid ==
    /\ hpc = [c \in LoadCallers |-> "idle"]
    /\ is_loaded = FALSE
    /\ load_lock = None
    /\ executor_jobs = <<>>
    /\ model_loads = 0

IdleBlip ==
    /\ bpc = [t \in CaptionTasks |-> At("none", "idle")]
    /\ is_model_loaded = FALSE
    /\ model_loading_lock = None
    /\ lock_waits = <<>>

IdleSelect ==
    /\ spc = "idle"
    /\ sel_input = <<>>
    /\ sel_groups = <<>>
    /\ sel_final = <<>>
    /\ sel_index = 0

IdleColor ==
    /\ cpc = "idle"
    /\ rgb_triple = <<0, 0, 0>>
    /\ color_bucket = "none"

IdleLoaders == IdleHybrid /\ IdleBlip /\ IdleSelect /\ IdleColor

\* the components added to the request handler, the token cache and the
\* analyzer stay idle
IdleLeaves == IdleRank /\ IdleQuiz /\ IdleAnalysisFallback /\ IdleLoaders

TokenInit == InitToken /\ IdleRec /\ IdleMood /\ IdleLeaves

SpecToken == TokenInit /\ [][NextToken]_vars

RecInit == InitRec /\ IdleToken /\ IdleMood /\ IdleLeaves

SpecRec == RecInit /\ [][NextRec]_vars

MoodInit == InitMood /\ IdleToken /\ IdleRec /\ IdleLeaves

SpecMood == MoodInit /\ [][NextMood]_vars

\* _combine_mood_analyses on arbitrary analyses
FusionInit == InitSignals /\ IdleToken /\ IdleRec /\ IdleLeaves

SpecFusion == FusionInit /\ [][CombineSignals]_vars

\* _mood_to_spotify_features on arbitrary combined moods
SynthInit == InitCombined /\ IdleToken /\ IdleRec /\ IdleLeaves

SpecSynth == SynthInit /\ [][GenerateAudioFeatures]_vars

RankInit ==
    InitRank /\ IdleToken /\ IdleRec /\ IdleMood /\ IdleQuiz /\ IdleAnalysisFallback
        /\ IdleLoaders

SpecRank == RankInit /\ [][NextRank]_vars

QuizInit ==
    InitQuiz /\ IdleToken /\ IdleRec /\ IdleMood /\ IdleRank /\ IdleAnalysisFallback
        /\ IdleLoaders

SpecQuiz == QuizInit /\ [][NextQuiz]_vars

AnalysisFallbackInit ==
    InitAnalysisFallback /\ IdleToken /\ IdleRec /\ IdleMood /\ IdleRank /\ IdleQuiz
        /\ IdleLoaders

SpecAnalysisFallback == AnalysisFallbackInit /\ [][NextAnalysisFallback]_vars

\* the components other than the two model-loading services stay idle
IdleRequests == IdleToken /\ IdleRec /\ IdleMood /\ IdleRank /\ IdleQuiz /\ IdleAnalysisFallback

HybridInit == InitHybrid /\ IdleRequests /\ IdleBlip /\ IdleSelect /\ IdleColor

SpecHybrid == HybridInit /\ [][NextHybrid]_vars

BlipInit == InitBlip /\ IdleRequests /\ IdleHybrid /\ IdleSelect /\ IdleColor

SpecBlip == BlipInit /\ [][NextBlip]_vars

\* the event loop runs every coroutine that is ready, and the executor
\* finishes every job
SpecBlipLive == SpecBlip /\ WF_vars(NextBlip)

SelectInit == InitSelect /\ IdleRequests /\ IdleHybrid /\ IdleBlip /\ IdleColor

SpecSelect == SelectInit /\ [][NextSelect]_vars

\* the loop is sequential code: it goes on until it is left
SpecSelectLive == SpecSelect /\ WF_vars(NextSelect)

ColorInit == InitColor /\ IdleRequests /\ IdleHybrid /\ IdleBlip /\ IdleSelect

SpecColor == ColorInit /\ [][ClassifyColor]_vars

\* ---------------------------------------------------------------------
\* Properties
\* ---------------------------------------------------------------------

\* the request went through the live catalog and has been answered
LiveDone == rpc = "done" /\ auth = "token" /\ response.status = 200

Recs == response.recommendations

\* ids the k-th query contributed to all_tracks
IdsOfQuery(k) == {SearchItems(k, catalog)[j].id : j \in 1..Min(4, PageSize)}

OkQueries == {k \in 1..Len(outcomes) : outcomes[k] = "ok"}

\* C1: the list returned by _diversified_track_selection holds at most 2
\* tracks whose artist names are equal when compared case-insensitively.
C1_AtMostTwoPerArtist ==
    LiveDone =>
        \A j \in 1..Len(Recs) :
            Cardinality({i \in 1..Len(Recs) :
                            Lower(Recs[i].artist) = Lower(Recs[j].artist)}) <= 2

\* the cap has acted: two selected tracks of one artist under different
\* spellings, a further track of that artist was left out although the list
\* is not full
C1_Witness ==
    /\ LiveDone
    /\ Len(Recs) < TargetSize
    /\ \E i, j \in 1..Len(Recs) :
          /\ i # j
          /\ Recs[i].artist # Recs[j].artist
          /\ Lower(Recs[i].artist) = Lower(Recs[j].artist)
          /\ \E k \in 1..Len(all_tracks) :
                /\ Lower(all_tracks[k].artist) = Lower(Recs[i].artist)
                /\ \A n \in 1..Len(Recs) : Recs[n].id # all_tracks[k].id

\* C2: the list returned by the selector has at most 8 entries and no two
\* entries share a track id, also when the input repeats ids.
C2_AtMostEightUniqueIds ==
    LiveDone =>
        /\ Len(Recs) <= 8
        /\ \A i, j \in 1..Len(Recs) : Recs[i].id = Recs[j].id => i = j

\* the input repeats an id, holds more than 8 distinct ids, and 8 tracks
\* were returned
C2_Witness ==
    /\ LiveDone
    /\ Len(Recs) = 8
    /\ \E i, j \in 1..Len(all_tracks) : i # j /\ all_tracks[i].id = all_tracks[j].id
    /\ Cardinality({all_tracks[i].id : i \in 1..Len(all_tracks)}) > 8

\* C3: for an id returned by several queries the merged candidate list holds
\* exactly one entry, the copy of the earliest query that returned it, with
\* that query's origin tag; the recommendations carry the same tag.
C3_FirstOccurrenceWins ==
    LiveDone =>
        LET merged == UniqueTracks(all_tracks)
            FirstQuery(id) ==
                CHOOSE k \in OkQueries :
                    /\ id \in IdsOfQuery(k)
                    /\ \A n \in OkQueries : id \in IdsOfQuery(n) => k <= n
            Tag(id) == Prefix(search_queries[FirstQuery(id)], 20)
        IN /\ \A k \in OkQueries : \A id \in IdsOfQuery(k) :
                 /\ Cardinality({i \in 1..Len(merged) : merged[i].id = id}) = 1
                 /\ \A i \in 1..Len(merged) :
                       merged[i].id = id => merged[i].search_type = Tag(id)
           /\ \A i \in 1..Len(Recs) : Recs[i].search_type = Tag(Recs[i].id)

\* two successful queries with different origin tags returned the same id,
\* and that track is among the recommendations
C3_Witness ==
    /\ LiveDone
    /\ \E k, n \in OkQueries :
          /\ k < n
          /\ Prefix(search_queries[k], 20) # Prefix(search_queries[n], 20)
          /\ \E i \in 1..Len(Recs) :
                Recs[i].id \in IdsOfQuery(k) \cap IdsOfQuery(n)

\* C4: at most one token refresh call to the auth endpoint is in flight at
\* any time, the other callers wait for it.
C4_SingleFlightRefresh ==
    Cardinality({p \in Callers : tpc[p] = "await"}) <= 1

\* C5: a call returns the cached token without refreshing only while its
\* current_time is strictly before (start of the refresh that produced the
\* token + expires_in - 60); a call at or after that instant attempts a
\* refresh and returns either the token of its own refresh or None.
C5_CachedOnlyWhileFresh ==
    \A p \in Callers :
        tpc[p] = "done" =>
            /\ (~refreshed[p] /\ ret[p] # None) =>
                   current_time[p] <
                       issued[ret[p]].started + issued[ret[p]].expires_in - 60
            /\ (refreshed[p] /\ ret[p] # None) =>
                   /\ issued[ret[p]].caller = p
                   /\ issued[ret[p]].started = current_time[p]
            /\ (~refreshed[p] /\ ret[p] = None) => ~credentials

\* one caller was served from the cache while another one, calling at or
\* after the expiry instant of a cached token, went to refresh
C5_Witness ==
    \E p, q \in Callers :
        /\ tpc[p] = "done" /\ ~refreshed[p] /\ ret[p] # None
        /\ current_time[p] > issued[ret[p]].started
        /\ tpc[q] = "done" /\ refreshed[q] /\ ret[q] # None
        /\ ret[q] > 1
        /\ current_time[q] >=
               issued[ret[q] - 1].started + issued[ret[q] - 1].expires_in - 60

\* C6: after a failed refresh attempt the cache holds no token.
C6_FailedRefreshDiscardsCache ==
    [][\A p \in Callers :
          (tpc[p] = "await" /\ tpc'[p] = "done" /\ ret'[p] = None)
              => spotify_access_token' = None]_vars

\* C7: in the Live state failed searches neither abort the request nor
\* switch it to the local fallback: every query of the plan is issued in
\* order, and the answer is a success built from the successful queries only.
C7_FailSoftQueries ==
    (rpc = "done" /\ auth = "token" /\ ~ProfileRaises(user_profile)) =>
        /\ response.status = 200 /\ response.success
        /\ ~Contains(s_fallback, response.search_strategy)
        /\ Len(outcomes) = Len(search_queries)
        /\ \A k \in 1..Len(outcomes) : outcomes[k] \in {"ok", "failed"}
        /\ {Recs[i].id : i \in 1..Len(Recs)}
               \subseteq UNION {IdsOfQuery(k) : k \in OkQueries}
        /\ {all_tracks[i].id : i \in 1..Len(all_tracks)}
               = UNION {IdsOfQuery(k) : k \in OkQueries}

\* a query failed, a later one succeeded and contributed to the answer
C7_Witness ==
    /\ LiveDone
    /\ \E k, n \in 1..Len(outcomes) :
          /\ k < n /\ outcomes[k] = "failed" /\ outcomes[n] = "ok"
          /\ \E i \in 1..Len(Recs) : Recs[i].id \in IdsOfQuery(n)
    /\ \E k \in 1..Len(outcomes) : outcomes[k] = "failed" /\ k = Len(outcomes)

\* C8: without a catalog token the response has success=true, a non-empty
\* recommendations list and a search strategy containing "fallback", for
\* every mood and every (well-formed, present or absent) user profile.
C8_FallbackNonEmpty ==
    (rpc = "done" /\ auth = "no_token" /\ ~ProfileRaises(user_profile)) =>
        /\ response.status = 200 /\ response.success
        /\ Recs # <<>>
        /\ Contains(s_fallback, response.search_strategy)

IsSunnyBeach == caption = SunnyBeach /\ colors = SunnyBeachColors /\ mpc = "done"

\* C10 (as stated): for the sunny beach input the fused mood is happy, the
\* confidence exceeds 0.4 and the tempo is within 130 +/- 10.
C10_SunnyBeachIsHappy ==
    IsSunnyBeach =>
        /\ mood_result.primary_mood = "happy"
        /\ 10 * mood_result.mood_confidence > 4 * FusedUnit
        /\ audio_features["tempo"] >= 120 * FusedUnit
        /\ audio_features["tempo"] <= 140 * FusedUnit

\* C10 (amended): for the sunny beach input the text signal is nature, the
\* color signal neutral and the scene signal peaceful; the fused mood is
\* nature with confidence 0.125, and the tempo is within 117.5 +/- 10.
C10_SunnyBeachIsNature ==
    IsSunnyBeach =>
        /\ mood_result.text_analysis.primary_mood = "nature"
        /\ mood_result.color_analysis.primary_mood = "neutral"
        /\ mood_result.scene_analysis.primary_mood = "peaceful"
        /\ mood_result.primary_mood = "nature"
        /\ 8 * mood_result.mood_confidence = FusedUnit
        /\ 2 * audio_features["tempo"] >= 215 * FusedUnit
        /\ 2 * audio_features["tempo"] <= 255 * FusedUnit

\* the sunny beach input analyzed with the largest downward tempo jitter
C10_Witness ==
    IsSunnyBeach /\ 2 * audio_features["tempo"] = 215 * FusedUnit


\* two ranked entries that agree in popularity, duration, explicit flag,
\* release date and artist, the title of the second one alone containing
\* "sad"
SadTwins(plain, sad) ==
    /\ plain.track.popularity = sad.track.popularity
    /\ plain.track.duration_ms = sad.track.duration_ms
    /\ plain.track.explicit = sad.track.explicit
    /\ plain.track.release_date = sad.track.release_date
    /\ plain.track.artist = sad.track.artist
    /\ ~Contains(s_sad, Lower(plain.track.name))
    /\ Contains(s_sad, Lower(sad.track.name))

\* C11: of two candidates that differ only in that one title contains "sad",
\* the one without "sad" gets the strictly higher score and is placed
\* strictly before the other, for every mood.
C11_NonSadRanksHigher ==
    kpc = "ranked" =>
        \A i, j \in 1..Len(ranked_tracks) :
            SadTwins(ranked_tracks[i], ranked_tracks[j]) =>
                /\ ranked_tracks[i].ranking_score > ranked_tracks[j].ranking_score
                /\ i < j

\* C12: when the text, color and scene analyses all have primary mood
\* neutral, _combine_mood_analyses returns peaceful with confidence 0.2,
\* whatever the three confidences are.
C12_AllNeutralGivesPeaceful ==
    (/\ mpc = "combined"
     /\ mood_result.text_analysis.primary_mood = "neutral"
     /\ mood_result.color_analysis.primary_mood = "neutral"
     /\ mood_result.scene_analysis.primary_mood = "neutral")
    => /\ mood_result.primary_mood = "peaceful"
       /\ 5 * mood_result.mood_confidence = FusedUnit

\* three neutral analyses with confidences 1, 0.6 and 0.1 were combined
C12_Witness ==
    /\ mpc = "combined"
    /\ mood_result.text_analysis = [primary_mood |-> "neutral", confidence |-> ConfUnit]
    /\ mood_result.color_analysis = [primary_mood |-> "neutral", confidence |-> Tenths(6)]
    /\ mood_result.scene_analysis = [primary_mood |-> "neutral", confidence |-> Tenths(1)]
    /\ mood_result.primary_mood = "peaceful"

\* every rating of the list is a like of a song of the catalog
AllLikedAndKnown(ratings) ==
    \A i \in 1..Len(ratings) :
        /\ ratings[i].liked
        /\ \E k \in 1..Len(QUIZ_SONGS) : QUIZ_SONGS[k].id = ratings[i].song_id

\* the genres every rated song of the list carries
CommonGenres(ratings) ==
    {genre \in UNION {Range(QUIZ_SONGS[k].genres) : k \in 1..Len(QUIZ_SONGS)} :
        \A i \in 1..Len(ratings) :
            \E k \in 1..Len(QUIZ_SONGS) :
                /\ QUIZ_SONGS[k].id = ratings[i].song_id
                /\ genre \in Range(QUIZ_SONGS[k].genres)}

\* C13: for a non-empty list of ratings in which every rated song is liked
\* and in the catalog, a genre present on every rated song gets genre
\* preference exactly 1.0.
C13_CommonGenreIsOne ==
    (qpc = "done" /\ song_ratings # <<>> /\ AllLikedAndKnown(song_ratings)) =>
        /\ quiz_response.status = 200
        /\ \A genre \in CommonGenres(song_ratings) :
              /\ genre \in DOMAIN quiz_response.genre_preferences
              /\ quiz_response.genre_preferences[genre].num
                    = quiz_response.genre_preferences[genre].den

\* likes of two different songs that share a genre; another genre, not on
\* both, got a preference below 1
C13_Witness ==
    /\ qpc = "done"
    /\ AllLikedAndKnown(song_ratings)
    /\ \E i, j \in 1..Len(song_ratings) : song_ratings[i].song_id # song_ratings[j].song_id
    /\ CommonGenres(song_ratings) # {}
    /\ \E genre \in DOMAIN quiz_response.genre_preferences :
          quiz_response.genre_preferences[genre].num
             < quiz_response.genre_preferences[genre].den

\* the fraction num/den lies in [0, 1]
InUnitInterval(value) ==
    IF value.den > 0 THEN 0 <= value.num /\ value.num <= value.den
    ELSE value.den <= value.num /\ value.num <= 0

\* C14: for every list of like/dislike ratings over catalog songs, every
\* value of genre_preferences in the produced profile lies in [0, 1].
C14_GenrePreferencesInUnitInterval ==
    (qpc = "done" /\ quiz_response.status = 200) =>
        \A genre \in DOMAIN quiz_response.genre_preferences :
            InUnitInterval(quiz_response.genre_preferences[genre])

\* C15: for every mood label, known or not, and every confidence in [0, 1]
\* the features valence, energy, danceability, acousticness and
\* instrumentalness lie in [0, 1] and the tempo in [60, 200], without
\* variation and with any variation within 0.1 (features) and 10 (tempo).
C15_FeaturesInRange ==
    mpc = "done" =>
        /\ \A f \in JitteredFeatures :
              0 <= audio_features[f] /\ audio_features[f] <= 10 * FusedUnit
        /\ 60 * FusedUnit <= audio_features["tempo"]
        /\ audio_features["tempo"] <= 200 * FusedUnit

\* a mood at full confidence whose variations took an energy to 1.0 and a
\* mood without base features, both with features produced
C15_Witness ==
    /\ mpc = "done"
    /\ \/ /\ mood_result.primary_mood = "energetic"
          /\ mood_result.mood_confidence = FusedUnit
          /\ audio_features["energy"] = 10 * FusedUnit
       \/ /\ mood_result.primary_mood = "melancholic"
          /\ mood_result.mood_confidence = FusedUnit
          /\ audio_features["tempo"] = 60 * FusedUnit

\* the ranked entry 'first' is to stand before 'second': higher score, or
\* equal score and higher popularity, or both equal and the smaller id
RanksBefore(first, second) ==
    \/ first.ranking_score > second.ranking_score
    \/ /\ first.ranking_score = second.ranking_score
       /\ first.track.popularity > second.track.popularity
    \/ /\ first.ranking_score = second.ranking_score
       /\ first.track.popularity = second.track.popularity
       /\ first.track.id < second.track.id

\* C16: the ranked list is in descending order of score, equal scores in
\* descending order of popularity and, popularity being equal too, in the
\* order of the track ids, whatever the order of the aggregated tracks.
C16_TiesByPopularityThenId ==
    kpc = "ranked" =>
        \A i, j \in 1..Len(ranked_tracks) :
            i < j => RanksBefore(ranked_tracks[i], ranked_tracks[j])

\* C17: a request issues search calls for at most the first 6 queries of
\* its plan, whatever the length of the plan.
C17_AtMostSixSearches == Len(outcomes) <= 6

\* the entries of the list are different songs
NoSongTwice(songs) ==
    \A i, j \in 1..Len(songs) : songs[i].id = songs[j].id => i = j

\* C18: the list of the local fallback holds every catalog song whose genres
\* match, no song twice, and, when fewer than 10 match, 10 songs (or the
\* whole catalog if that is smaller), for every mood and music profile.
C18_FallbackFilledToTen ==
    apc = "done" =>
        LET matched == MatchedSongs(music_profile.recommended_genres)
        IN /\ NoSongTwice(fallback_songs)
           /\ \A i \in 1..Len(matched) :
                 \E j \in 1..Len(fallback_songs) : fallback_songs[j].id = matched[i]
           /\ Len(matched) < FillTarget =>
                 Len(fallback_songs) = Min(FillTarget, Len(QUIZ_SONGS))

\* C19: for every mood the plan is the 4 scene queries, then at most one
\* "genre:" query of the user, then exactly 2 mood-specific queries.
C19_PlanEndsWithTwoMoodQueries ==
    (auth = "token" /\ rpc \in {"search", "done"} /\ search_queries # <<>>) =>
        \E user_genre_count \in {0, 1} :
            /\ Len(search_queries) = 4 + user_genre_count + 2
            /\ user_genre_count = 1 =>
                  Prefix(search_queries[5], Len(s_genre_colon)) = s_genre_colon

\* the ratings of the list whose song_id is the id of a catalog song
KnownRatings(ratings) ==
    Filter(ratings,
        [i \in 1..Len(ratings) |->
            \E k \in 1..Len(QUIZ_SONGS) : QUIZ_SONGS[k].id = ratings[i].song_id])

\* C20: ratings of a song id that is not in the catalog are skipped: the
\* answer (status, genre preferences, audio-feature preferences, artist sets
\* and counts) is the answer to the list without those ratings.
C20_AbsentSongsSkipped ==
    qpc = "done" =>
        quiz_response = CalculatePreferences(KnownRatings(song_ratings))

\* a list with a rating of an absent id and ratings of catalog songs was
\* answered with a profile
C20_Witness ==
    /\ qpc = "done"
    /\ quiz_response.status = 200
    /\ \E i \in 1..Len(song_ratings) : song_ratings[i].song_id = AbsentSongId
    /\ quiz_response.songs_liked > 0
    /\ quiz_response.songs_disliked > 0

\* artist strings of the returned tracks, as the diversification test of
\* the recommendations router collects them
ResponseArtists == {Recs[i].artist : i \in 1..Len(Recs)}

\* C21: every recommendations response with more than one track has more
\* than half as many distinct artists as tracks
C21_ArtistDiversityAboveHalf ==
    (LiveDone /\ Len(Recs) > 1) =>
        2 * Cardinality(ResponseArtists) > Len(Recs)

\* the origin-tag groups of the merged candidates, in order of first
\* appearance
OriginGroups == SearchTypes(UniqueTracks(all_tracks))

\* number of returned tracks the group contributed
Contributed(search_type) ==
    Cardinality({i \in 1..Len(Recs) : Recs[i].search_type = search_type})

\* candidates of the group that were not returned
LeftOver(search_type) ==
    LET unique_tracks == UniqueTracks(all_tracks)
    IN {i \in 1..Len(unique_tracks) :
           /\ unique_tracks[i].search_type = search_type
           /\ \A j \in 1..Len(Recs) : Recs[j].id # unique_tracks[i].id}

\* the group still has a candidate the artist cap would admit
HasEligibleLeft(search_type) ==
    LET unique_tracks == UniqueTracks(all_tracks)
    IN \E i \in LeftOver(search_type) : ArtistAllowed(Recs, unique_tracks[i])

\* C22: selection is round-robin over the origin-tag groups in order of
\* first appearance: a group that contributed at least 2 tracks fewer than
\* another group, or fewer than a group that comes after it, has no
\* candidate left that the artist cap admits
C22_RoundRobinFair ==
    LiveDone =>
        \A a, b \in 1..Len(OriginGroups) :
            /\ Contributed(OriginGroups[a]) + 2 <= Contributed(OriginGroups[b])
                  => ~HasEligibleLeft(OriginGroups[a])
            /\ (a < b /\ Contributed(OriginGroups[a]) < Contributed(OriginGroups[b]))
                  => ~HasEligibleLeft(OriginGroups[a])

\* a group contributed at least 2 tracks fewer than another one although
\* candidates of it were left: the artist cap had exhausted it
C22_Witness ==
    /\ LiveDone
    /\ Len(Recs) < TargetSize
    /\ \E a, b \in 1..Len(OriginGroups) :
          /\ Contributed(OriginGroups[a]) + 2 <= Contributed(OriginGroups[b])
          /\ LeftOver(OriginGroups[a]) # {}

\* the three analyses in the order in which the fusion reads them, with
\* their weights in tenths
FusionSources ==
    << [signal |-> mood_result.text_analysis, weight |-> 5],
       [signal |-> mood_result.color_analysis, weight |-> 3],
       [signal |-> mood_result.scene_analysis, weight |-> 2] >>

\* sources that name the mood and are not neutral
Contributors(m) ==
    {k \in 1..3 : /\ FusionSources[k].signal.primary_mood = m
                  /\ m # "neutral"}

\* sum of confidence x weight over the non-neutral sources naming the mood,
\* in units of 1/FusedUnit
RECURSIVE WeightedSum(_, _)
WeightedSum(m, k) ==
    IF k = 0 THEN 0
    ELSE WeightedSum(m, k - 1)
         + (IF k \in Contributors(m)
            THEN FusionSources[k].signal.confidence * FusionSources[k].weight
            ELSE 0)

FusionScore(m) == WeightedSum(m, 3)

ContributedMoods == {m \in SignalMoods : Contributors(m) # {}}

FirstContributor(m) == CHOOSE k \in Contributors(m) : \A j \in Contributors(m) : k <= j

\* C23: each non-neutral signal adds confidence x weight (text 0.5, color
\* 0.3, scene 0.2) to the score of its mood; the fused mood has maximal
\* score and, among moods of equal maximal score, was contributed first in
\* the order text, color, scene; the fused confidence is min(max score, 1.0)
C23_FusedMoodIsFirstArgmax ==
    (mpc = "combined" /\ ContributedMoods # {}) =>
        /\ mood_result.primary_mood \in ContributedMoods
        /\ \A m \in ContributedMoods :
              /\ FusionScore(m) <= FusionScore(mood_result.primary_mood)
              /\ (m # mood_result.primary_mood
                  /\ FusionScore(m) = FusionScore(mood_result.primary_mood))
                    => FirstContributor(mood_result.primary_mood) < FirstContributor(m)
        /\ mood_result.mood_confidence
              = Min(FusionScore(mood_result.primary_mood), FusedUnit)

\* text and color name different moods with equal scores (0.6 x 0.5 and
\* 1 x 0.3) that the scene does not top, and the text mood was returned
C23_Witness ==
    /\ mpc = "combined"
    /\ mood_result.text_analysis.primary_mood \notin
          {"neutral", mood_result.color_analysis.primary_mood}
    /\ mood_result.color_analysis.primary_mood # "neutral"
    /\ FusionScore(mood_result.text_analysis.primary_mood)
          = FusionScore(mood_result.color_analysis.primary_mood)
    /\ FusionScore(mood_result.text_analysis.primary_mood) > 0
    /\ mood_result.primary_mood = mood_result.text_analysis.primary_mood
    /\ mood_result.mood_confidence = FusionScore(mood_result.primary_mood)

\* the supplied colors the color analysis looks at
TopColors == Prefix(colors, 3)

\* how many of them classify into a bucket that has an entry in
\* color_psychology
KnownBucketColors ==
    Cardinality({k \in 1..Len(TopColors) :
                    RgbToColorName(TopColors[k].rgb) \in DOMAIN color_psychology})

\* C24: for a non-empty color list the confidence of the color signal is
\* min(0.3 x n, 0.8), n being the number of the top-3 colors with a known
\* bucket, also when several of them fall into one bucket
C24_ColorConfidenceCountsColors ==
    (mpc # "input" /\ colors # <<>>) =>
        mood_result.color_analysis.confidence
            = Min(KnownBucketColors * Tenths(3), Tenths(8))

\* the keyword set of a mood
KeywordSet(m) == {keywords[m][k] : k \in 1..Len(keywords[m])}

\* number of distinct keywords of the mood that occur in the lower-cased
\* caption
DistinctMatches(m) ==
    Cardinality({w \in KeywordSet(m) : Contains(w, Lower(caption))})

\* the first mood in declaration order with the highest count
HighestCountMood ==
    MoodOrder[CHOOSE k \in 1..Len(MoodOrder) :
                 /\ \A j \in 1..Len(MoodOrder) :
                       DistinctMatches(MoodOrder[j]) <= DistinctMatches(MoodOrder[k])
                 /\ \A j \in 1..(k - 1) :
                       DistinctMatches(MoodOrder[j]) < DistinctMatches(MoodOrder[k])]

\* C25: the text signal names the first mood in declaration order with the
\* highest number of distinct matching keywords, with confidence
\* count / size of the keyword set (at most 1); neutral with confidence 0.1
\* when no keyword matches
C25_TextCountsDistinctKeywords ==
    mpc # "input" =>
        IF DistinctMatches(HighestCountMood) > 0
        THEN /\ mood_result.text_analysis.primary_mood = HighestCountMood
             /\ mood_result.text_analysis.confidence
                    * Cardinality(KeywordSet(HighestCountMood))
                  = Min(DistinctMatches(HighestCountMood),
                        Cardinality(KeywordSet(HighestCountMood))) * ConfUnit
        ELSE /\ mood_result.text_analysis.primary_mood = "neutral"
             /\ mood_result.text_analysis.confidence = Tenths(1)

\* C26: concurrent calls of HybridImageService.load_model on a service
\* whose model is not loaded run _load_model_sync at most once
C26_ModelLoadedAtMostOnce == model_loads <= 1

\* a call of load_model or generate_caption has come to its end
BlipCompleted(t) == bpc[t].at \in {"returned", "raised"}

\* C29: a call of BLIP2Service.load_model on a service whose model is not
\* loaded eventually completes, with the model marked loaded or an error
C29_LoadModelCompletes ==
    \A t \in CaptionTasks :
        (bpc[t] = At("load_model", "load_sync")) ~> BlipCompleted(t)

\* every rating is a rating of a catalog song
AllKnown == KnownRatings(song_ratings) = song_ratings

\* C28: calculate_preferences answers every list of like/dislike ratings
\* over catalog songs with a profile, never with an error, also when the
\* highest genre score is 0 or negative
C28_CatalogRatingsGiveProfile ==
    (qpc = "done" /\ AllKnown) => quiz_response.status = 200

\* number of candidates still held by the groups
RECURSIVE TracksLeft(_, _)
TracksLeft(groups, g) ==
    IF g = 0 THEN 0 ELSE Len(groups[g]) + TracksLeft(groups, g - 1)

\* an iteration of the loop either adds a track, or empties a non-empty
\* group, or passes an empty group while another group holds candidates
IterationProgress ==
    (spc = "loop" /\ spc' = "loop") =>
        \/ /\ Len(sel_final') = Len(sel_final) + 1
           /\ TracksLeft(sel_groups', Len(sel_groups'))
                 = TracksLeft(sel_groups, Len(sel_groups)) - 1
        \/ /\ sel_groups[CurrentGroup] # <<>>
           /\ sel_groups'[CurrentGroup] = <<>>
        \/ /\ sel_groups[CurrentGroup] = <<>>
           /\ \E g \in 1..Len(sel_groups) : sel_groups[g] # <<>>
           /\ sel_index' = sel_index + 1

\* C27: the round-robin loop of the selector terminates for every input:
\* every iteration makes progress and the selector returns
C27_SelectorTerminates ==
    /\ [][IterationProgress]_vars
    /\ <>(spc = "returned")

\* the selector returned fewer than 8 tracks and left candidates out: the
\* loop ended because the artist cap exhausted the groups
C27_Witness ==
    /\ spc = "returned"
    /\ Len(sel_final) < TargetSize
    /\ Len(sel_final) < Len(UniqueTracks(sel_input))
    /\ sel_index > Len(sel_final)

\* the named color buckets of the classification
ColorBuckets ==
    {"red", "yellow", "green", "blue", "purple", "orange", "pink", "black",
     "white", "gray"}

\* C30: each of the 10 color buckets is the classification of some RGB
\* triple, and a triple with r > 200, g > 200 and b > 200 is classified as
\* white
C30_EveryBucketHasATriple ==
    cpc = "classified" =>
        /\ \A bucket \in ColorBuckets :
              \E triple \in RgbLevels \X RgbLevels \X RgbLevels :
                  RgbToColorName(triple) = bucket
        /\ (rgb_triple[1] > 200 /\ rgb_triple[2] > 200 /\ rgb_triple[3] > 200)
              => color_bucket = "white"

====
